---- MODULE Spec2Model ----
(***************************************************************************)
(* PII filter: Pattern Detector (RegexService), Entity Detector            *)
(* (NERService), Topic Extractor (LocalLLMService), Restoration Engine     *)
(* (RestorationService) and the request pipeline of                        *)
(* process_prompt_stream.stream_generator.                                 *)
(*                                                                         *)
(* Texts are strings; offsets are Python's 0-based offsets and spans are   *)
(* half-open <<start, end>> pairs, as in the source.                       *)
(***************************************************************************)
EXTENDS Integers, Sequences, FiniteSets, TLC

Min(a, b) == IF a < b THEN a ELSE b

Max(a, b) == IF a > b THEN a ELSE b

(***************************************************************************)
(* Python str primitives used by the services.                             *)
(***************************************************************************)

\* text[a:b] for 0 <= a, 0 <= b: Python clamps both ends to len(text).
Slice(text, a, b) == SubSeq(text, Min(a, Len(text)) + 1, Min(b, Len(text)))

\* text[a:]
SliceFrom(text, a) == Slice(text, a, Len(text))

\* text[i], a one-character string (0 <= i < len(text)).
CharAt(text, i) == SubSeq(text, i + 1, i + 1)

\* text.startswith(sub, pos)
StartsWithAt(text, sub, pos) ==
  /\ pos + Len(sub) <= Len(text)
  /\ SubSeq(text, pos + 1, pos + Len(sub)) = sub

\* text.find(sub, start): the lowest offset >= start where sub occurs, or -1.
RECURSIVE Find(_, _, _)
Find(text, sub, start) ==
  IF start + Len(sub) > Len(text) THEN -1
  ELSE IF StartsWithAt(text, sub, start) THEN start
  ELSE Find(text, sub, start + 1)

\* sub in text
Contains(text, sub) == Find(text, sub, 0) # -1

\* text.replace(old, new), old non-empty: every non-overlapping occurrence,
\* scanning left to right.
RECURSIVE Replace(_, _, _)
Replace(text, old, new) ==
  LET pos == Find(text, old, 0)
  IN IF pos = -1 THEN text
     ELSE Slice(text, 0, pos) \o new
          \o Replace(SliceFrom(text, pos + Len(old)), old, new)

\* str(n) for n >= 0: the decimal digits of n.
DigitChar(d) == SubSeq("0123456789", d + 1, d + 1)

RECURSIVE IntToStr(_)
IntToStr(n) ==
  IF n < 10 THEN DigitChar(n)
  ELSE IntToStr(n \div 10) \o DigitChar(n % 10)

(***************************************************************************)
(* Character classes of the patterns (re module, str patterns).            *)
(***************************************************************************)
Digits == {"0", "1", "2", "3", "4", "5", "6", "7", "8", "9"}

LowerLetters ==
  {"a", "b", "c", "d", "e", "f", "g", "h", "i", "j", "k", "l", "m",
   "n", "o", "p", "q", "r", "s", "t", "u", "v", "w", "x", "y", "z"}

UpperLetters ==
  {"A", "B", "C", "D", "E", "F", "G", "H", "I", "J", "K", "L", "M",
   "N", "O", "P", "Q", "R", "S", "T", "U", "V", "W", "X", "Y", "Z"}

Letters == LowerLetters \cup UpperLetters

AlNum == Letters \cup Digits

\* \w
WordChars == AlNum \cup {"_"}

\* \s
Spaces == {" "}

\* \b at offset pos: exactly one side of the offset is a word character.
IsWordBoundary(text, pos) ==
  LET before == pos > 0 /\ CharAt(text, pos - 1) \in WordChars
      after == pos < Len(text) /\ CharAt(text, pos) \in WordChars
  IN before # after

(***************************************************************************)
(* A pattern is a sequence of items:                                       *)
(*   k = "cls": between min and max characters of set, greedy;             *)
(*   k = "wb" : \b;                                                        *)
(*   k = "opt": (?: sub )?, greedy.                                        *)
(***************************************************************************)
Cls(set, min, max) == [k |-> "cls", set |-> set, min |-> min, max |-> max, sub |-> <<>>]

Wb == [k |-> "wb", set |-> {}, min |-> 0, max |-> 0, sub |-> <<>>]

Opt(sub) == [k |-> "opt", set |-> {}, min |-> 0, max |-> 0, sub |-> sub]

\* An upper limit for * and {2,}: no text of the model is this long.
Unbounded == 1000

\* The number of characters of set at text[pos:], at most max.
RECURSIVE RunLength(_, _, _, _)
RunLength(text, pos, set, max) ==
  IF max = 0 \/ pos >= Len(text) \/ CharAt(text, pos) \notin set THEN 0
  ELSE 1 + RunLength(text, pos + 1, set, max - 1)

\* The backtracking matcher: the end offset of the first match of items at
\* pos in the engine's search order (greedy first), or -1.
RECURSIVE MatchAt(_, _, _)
RECURSIVE TryCounts(_, _, _, _, _)
MatchAt(items, text, pos) ==
  IF items = <<>> THEN pos
  ELSE LET it == Head(items)
           rest == Tail(items)
       IN CASE it.k = "wb" ->
                 IF IsWordBoundary(text, pos) THEN MatchAt(rest, text, pos) ELSE -1
            [] it.k = "opt" ->
                 LET taken == MatchAt(it.sub \o rest, text, pos)
                 IN IF taken # -1 THEN taken ELSE MatchAt(rest, text, pos)
            [] OTHER ->
                 TryCounts(rest, text, pos, RunLength(text, pos, it.set, it.max), it.min)

TryCounts(rest, text, pos, count, min) ==
  IF count < min THEN -1
  ELSE LET end == MatchAt(rest, text, pos + count)
       IN IF end # -1 THEN end ELSE TryCounts(rest, text, pos, count - 1, min)

\* pattern.finditer(text): the non-overlapping matches, left to right, as
\* spans; the scan resumes at the end of each match.
RECURSIVE FindIter(_, _, _)
FindIter(items, text, pos) ==
  IF pos > Len(text) THEN <<>>
  ELSE LET end == MatchAt(items, text, pos)
       IN IF end = -1 THEN FindIter(items, text, pos + 1)
          ELSE IF end = pos THEN <<<<pos, end>>>> \o FindIter(items, text, pos + 1)
          ELSE <<<<pos, end>>>> \o FindIter(items, text, end)

(***************************************************************************)
(* core/constants.py: PII_PATTERNS, in the dictionary's order.             *)
(***************************************************************************)
PatternTypes == <<"CPF", "RG", "EMAIL", "TELEFONE", "CEP">>

EmailInner == AlNum \cup {".", "_", "%", "+", "-"}

DomainInner == AlNum \cup {".", "-"}

PII_PATTERNS(pii_type) ==
  CASE pii_type = "CPF" ->
         \* \b\d{3}\.?\d{3}\.?\d{3}-?\d{2}\b
         <<Wb, Cls(Digits, 3, 3), Cls({"."}, 0, 1), Cls(Digits, 3, 3),
           Cls({"."}, 0, 1), Cls(Digits, 3, 3), Cls({"-"}, 0, 1),
           Cls(Digits, 2, 2), Wb>>
    [] pii_type = "RG" ->
         \* \b\d{1,2}\.\d{3}\.\d{3}-[0-9X]\b, IGNORECASE
         <<Wb, Cls(Digits, 1, 2), Cls({"."}, 1, 1), Cls(Digits, 3, 3),
           Cls({"."}, 1, 1), Cls(Digits, 3, 3), Cls({"-"}, 1, 1),
           Cls(Digits \cup {"X", "x"}, 1, 1), Wb>>
    [] pii_type = "EMAIL" ->
         \* \b[a-zA-Z0-9](?:[a-zA-Z0-9._%+-]*[a-zA-Z0-9])?@
         \* [a-zA-Z0-9](?:[a-zA-Z0-9.-]*[a-zA-Z0-9])?\.[a-zA-Z]{2,}\b
         <<Wb, Cls(AlNum, 1, 1),
           Opt(<<Cls(EmailInner, 0, Unbounded), Cls(AlNum, 1, 1)>>),
           Cls({"@"}, 1, 1), Cls(AlNum, 1, 1),
           Opt(<<Cls(DomainInner, 0, Unbounded), Cls(AlNum, 1, 1)>>),
           Cls({"."}, 1, 1), Cls(Letters, 2, Unbounded), Wb>>
    [] pii_type = "TELEFONE" ->
         \* (?:\+?55\s?)?\(?\d{2}\)?\s?\d{4,5}[-\s]?\d{4}
         <<Opt(<<Cls({"+"}, 0, 1), Cls({"5"}, 2, 2), Cls(Spaces, 0, 1)>>),
           Cls({"("}, 0, 1), Cls(Digits, 2, 2), Cls({")"}, 0, 1),
           Cls(Spaces, 0, 1), Cls(Digits, 4, 5), Cls({"-"} \cup Spaces, 0, 1),
           Cls(Digits, 4, 4)>>
    [] pii_type = "CEP" ->
         \* \b\d{5}-?\d{3}\b
         <<Wb, Cls(Digits, 5, 5), Cls({"-"}, 0, 1), Cls(Digits, 3, 3), Wb>>

(***************************************************************************)
(* utils/validators.py and utils/normalizers.py                            *)
(***************************************************************************)

\* re.sub(r"\D", "", value)
RECURSIVE OnlyDigits(_)
OnlyDigits(value) ==
  IF value = "" THEN ""
  ELSE (IF Head(value) \in Digits THEN Head(value) ELSE "") \o OnlyDigits(Tail(value))

\* s == s[0] * len(s), for a non-empty s
RECURSIVE AllSameAs(_, _)
AllSameAs(s, c) == s = "" \/ (Head(s) = c /\ AllSameAs(Tail(s), c))

is_plausible_cpf(cpf) ==
  LET digits == OnlyDigits(cpf)
  IN /\ Len(digits) = 11
     /\ ~AllSameAs(digits, Head(digits))

\* int(c) of a digit
DigitValue(c) == CHOOSE n \in 0..9 : DigitChar(n) = c

\* sum(int(cpf[i]) * (first - i) for i in range(count))
RECURSIVE WeightedSum(_, _, _)
WeightedSum(cpf, first, count) ==
  IF count = 0 THEN 0
  ELSE WeightedSum(cpf, first, count - 1)
       + DigitValue(CharAt(cpf, count - 1)) * (first - (count - 1))

\* (soma * 10) % 11, with 10 made 0
CheckDigit(soma) == IF (soma * 10) % 11 = 10 THEN 0 ELSE (soma * 10) % 11

\* The official checksum algorithm.
validate_cpf(cpf) ==
  LET digits == OnlyDigits(cpf)
  IN /\ Len(digits) = 11
     /\ ~AllSameAs(digits, Head(digits))
     /\ DigitValue(CharAt(digits, 9)) = CheckDigit(WeightedSum(digits, 10, 9))
     /\ DigitValue(CharAt(digits, 10)) = CheckDigit(WeightedSum(digits, 11, 10))

\* value.split("@"): the number of parts is the number of "@" plus one.
RECURSIVE CountChar(_, _)
CountChar(s, c) ==
  IF s = "" THEN 0
  ELSE (IF Head(s) = c THEN 1 ELSE 0) + CountChar(Tail(s), c)

validate_pii(pii_type, value) ==
  CASE pii_type = "CPF" -> is_plausible_cpf(value)
    [] pii_type = "EMAIL" ->
         /\ CountChar(value, "@") = 1
         /\ Find(value, "@", 0) > 0
         /\ Find(value, "@", 0) < Len(value) - 1
         /\ ~Contains(value, "..")
    [] pii_type = "CEP" -> Len(OnlyDigits(value)) = 8
    [] pii_type = "TELEFONE" ->
         /\ 10 <= Len(OnlyDigits(value))
         /\ Len(OnlyDigits(value)) <= 13
    [] OTHER -> TRUE

LowerOf(c) ==
  IF c \in UpperLetters
  THEN LET i == Find("ABCDEFGHIJKLMNOPQRSTUVWXYZ", c, 0)
       IN CharAt("abcdefghijklmnopqrstuvwxyz", i)
  ELSE c

\* str.lower()
RECURSIVE Lower(_)
Lower(s) == IF s = "" THEN "" ELSE LowerOf(Head(s)) \o Lower(Tail(s))

normalize_pii_value(pii_type, value) ==
  CASE pii_type \in {"CPF", "CNPJ", "RG", "PIS", "TELEFONE"} -> OnlyDigits(value)
    [] pii_type = "EMAIL" -> Lower(value)
    [] pii_type = "CEP" ->
         LET digits == OnlyDigits(value)
         IN Slice(digits, 0, 5) \o "-" \o SliceFrom(digits, 5)
    [] OTHER -> value

(***************************************************************************)
(* list.sort is stable, also with reverse=True: elements whose keys are    *)
(* equal keep their order.  Before(a, b): a's key sorts strictly before    *)
(* b's.                                                                    *)
(***************************************************************************)
StableSort(seq, Before(_, _)) ==
  LET rank(i) ==
        Cardinality({j \in 1..Len(seq) :
                       \/ Before(seq[j], seq[i])
                       \/ (~Before(seq[i], seq[j]) /\ j < i)}) + 1
  IN [r \in 1..Len(seq) |-> seq[CHOOSE i \in 1..Len(seq) : rank(i) = r]]

\* seq.reverse()
Reverse(seq) == [i \in 1..Len(seq) |-> seq[Len(seq) + 1 - i]]

(***************************************************************************)
(* services/regex_service.py: RegexService                                 *)
(***************************************************************************)

\* A candidate: the dictionary built by _find_all_matches; match is the
\* span of the re.Match.
MatchStart(m) == m.match[1]

MatchEnd(m) == m.match[2]

\* key=lambda x: x["match"].start()
StartsBefore(a, b) == MatchStart(a) < MatchStart(b)

\* the same key with reverse=True
StartsAfter(a, b) == MatchStart(a) > MatchStart(b)

_TYPE_PRIORITY(pii_type) ==
  CASE pii_type \in {"CPF", "CNPJ", "EMAIL", "PIS", "TITULO_ELEITOR"} -> 1
    [] pii_type = "CARTAO_CREDITO" -> 2
    [] pii_type = "CEP" -> 3
    [] pii_type = "TELEFONE" -> 4
    [] pii_type = "CONTA_BANCARIA" -> 5
    [] pii_type = "RG" -> 6
    [] OTHER -> 99

\* The candidates of one pattern, in finditer's order.
RECURSIVE MatchesOfType(_, _, _, _)
MatchesOfType(pii_type, text, spans, validate_pii_data) ==
  IF spans = <<>> THEN <<>>
  ELSE LET span == Head(spans)
           pii_value == Slice(text, span[1], span[2])
           more == MatchesOfType(pii_type, text, Tail(spans), validate_pii_data)
       IN IF validate_pii_data /\ ~validate_pii(pii_type, pii_value)
          THEN more
          ELSE <<[match |-> span, type |-> pii_type, value |-> pii_value,
                  normalized_value |-> normalize_pii_value(pii_type, pii_value)]>>
               \o more

RECURSIVE FindAllFrom(_, _, _)
FindAllFrom(i, text, validate_pii_data) ==
  IF i > Len(PatternTypes) THEN <<>>
  ELSE MatchesOfType(PatternTypes[i], text,
                     FindIter(PII_PATTERNS(PatternTypes[i]), text, 0),
                     validate_pii_data)
       \o FindAllFrom(i + 1, text, validate_pii_data)

_find_all_matches(text, validate_pii_data) == FindAllFrom(1, text, validate_pii_data)

\* The inner while loop: the index after the last candidate, from j on,
\* whose start is before current_end.
RECURSIVE GroupEnd(_, _, _)
GroupEnd(sorted, j, current_end) ==
  IF j <= Len(sorted) /\ MatchStart(sorted[j]) < current_end
  THEN GroupEnd(sorted, j + 1, current_end)
  ELSE j

\* min(group, key=priority): the first candidate of the lowest priority value.
BestMatch(group) ==
  LET P(k) == _TYPE_PRIORITY(group[k].type)
      best == CHOOSE k \in 1..Len(group) :
                /\ \A l \in 1..Len(group) : P(k) <= P(l)
                /\ \A l \in 1..(k - 1) : P(l) > P(k)
  IN group[best]

\* The outer while loop, from index i (1-based) on.
RECURSIVE OverlapsFrom(_, _)
OverlapsFrom(sorted, i) ==
  IF i > Len(sorted) THEN <<>>
  ELSE LET current_end == MatchEnd(sorted[i])
           j == GroupEnd(sorted, i + 1, current_end)
           overlapping_matches == SubSeq(sorted, i, j - 1)
       IN <<BestMatch(overlapping_matches)>> \o OverlapsFrom(sorted, j)

_handle_overlaps(all_matches) ==
  IF all_matches = <<>> THEN <<>>
  ELSE OverlapsFrom(StableSort(all_matches, StartsBefore), 1)

\* total_counts[pii_type]
CountOfType(matches, pii_type) ==
  Cardinality({k \in 1..Len(matches) : matches[k].type = pii_type})

\* f"[{pii_type}_{n}]"
Placeholder(pii_type, n) == "[" \o pii_type \o "_" \o IntToStr(n) \o "]"

\* The substitution loop over the candidates in descending start order: the
\* k-th candidate (1-based) gets the count of its type among the candidates
\* from k on, which is total_counts minus the decrements made so far.
RECURSIVE ReplaceLoop(_, _, _, _)
ReplaceLoop(matches, k, modified_text, mappings_found) ==
  IF k > Len(matches) THEN <<modified_text, Reverse(mappings_found)>>
  ELSE LET item == matches[k]
           current_count == CountOfType(SubSeq(matches, k, Len(matches)), item.type)
           placeholder == Placeholder(item.type, current_count)
           mapping == [placeholder |-> placeholder, original_value |-> item.value,
                       type |-> item.type, span |-> item.match]
       IN ReplaceLoop(matches, k + 1,
                      Slice(modified_text, 0, MatchStart(item)) \o placeholder
                        \o SliceFrom(modified_text, MatchEnd(item)),
                      Append(mappings_found, mapping))

_replace_pii_with_placeholders(text, matches) ==
  ReplaceLoop(StableSort(matches, StartsAfter), 1, text, <<>>)

\* filter_by_regex: <<modified_text, mappings>>
\* filter_by_regex returning the text in lower case when nothing is found.
FilterByRegexLowered(text, validate_pii_data) ==
  IF text = "" THEN <<"", <<>>>>
  ELSE LET all_matches == _find_all_matches(text, validate_pii_data)
       IN IF all_matches = <<>> THEN <<Lower(text), <<>>>>
          ELSE _replace_pii_with_placeholders(text, _handle_overlaps(all_matches))

filter_by_regex(text, validate_pii_data) ==
  IF text = "" THEN <<"", <<>>>>
  ELSE LET all_matches == _find_all_matches(text, validate_pii_data)
       IN IF all_matches = <<>> THEN <<text, <<>>>>
          ELSE _replace_pii_with_placeholders(text, _handle_overlaps(all_matches))

RECURSIVE restore_pii_from_mappings(_, _)
restore_pii_from_mappings(filtered_text, mappings) ==
  IF mappings = <<>> THEN filtered_text
  ELSE restore_pii_from_mappings(
         Replace(filtered_text, Head(mappings).placeholder, Head(mappings).original_value),
         Tail(mappings))

(***************************************************************************)
(* Python str predicates used by NERService._extract_entities.             *)
(***************************************************************************)

RECURSIVE LStrip(_)
LStrip(s) == IF s # "" /\ Head(s) \in Spaces THEN LStrip(Tail(s)) ELSE s

RECURSIVE RStrip(_)
RStrip(s) ==
  IF s # "" /\ CharAt(s, Len(s) - 1) \in Spaces
  THEN RStrip(Slice(s, 0, Len(s) - 1))
  ELSE s

\* s.strip()
Strip(s) == RStrip(LStrip(s))

\* any(c in set for c in s)
AnyCharIn(s, set) == \E i \in 0..(Len(s) - 1) : CharAt(s, i) \in set

\* s.isdigit()
IsDigitStr(s) == s # "" /\ \A i \in 0..(Len(s) - 1) : CharAt(s, i) \in Digits

\* s.isupper(): a cased character, and no lowercase one
IsUpperStr(s) == AnyCharIn(s, UpperLetters) /\ ~AnyCharIn(s, LowerLetters)

\* len(s.split()): the number of maximal runs of non-space characters
WordCount(s) ==
  Cardinality({i \in 0..(Len(s) - 1) :
                 /\ CharAt(s, i) \notin Spaces
                 /\ (i = 0 \/ CharAt(s, i - 1) \in Spaces)})

\* any(pattern in s for pattern in patterns)
ContainsAny(s, patterns) == \E pattern \in patterns : Contains(s, pattern)

(***************************************************************************)
(* services/ner_service.py: NERService                                     *)
(***************************************************************************)
_ENTITY_TYPE_MAPPING(label) ==
  CASE label \in {"PERSON", "PER"} -> "NOME_PESSOA"
    [] label = "ORG" -> "ORGANIZACAO"
    [] label \in {"GPE", "LOC", "FAC"} -> "LOCAL"
    [] label = "EVENT" -> "EVENTO"
    [] label = "WORK_OF_ART" -> "OBRA_ARTE"
    [] label = "LAW" -> "LEI"
    [] label = "LANGUAGE" -> "IDIOMA"
    [] OTHER -> "ENTIDADE_" \o label

false_positives ==
  {"oi", "olá", "ei", "cpf", "cnpj", "email", "telefone", "rg", "cep", "use",
   "clt", "cargo", "setor", "cnh", "dados", "nome", "completo", "matrícula",
   "nascido", "funcionário", "endereço", "salário", "histórico", "login",
   "rede", "acesso", "ip", "gestão", "assinatura", "artigo", "lei", "código",
   "sistema", "empresa", "trabalho", "operações", "manutenção", "técnico",
   "jr", "senior", "pleno", "analista", "coordenador", "diretor", "gerente",
   "supervisor"}

generic_words ==
  {"de", "da", "do", "em", "na", "no", "e", "é", "meu", "minha", "sua", "seu",
   "para", "com", "por", "sem", "uma", "um", "das", "dos", "pela", "pelo"}

job_patterns ==
  {"cargo", "função", "técnico", "analista", "gerente", "coordenador",
   "assistente", "supervisor", "estagiário", "manutenção", "júnior", "jr",
   "senior", "sr", "pleno"}

_is_valid_name_with_numbers(text) ==
  ContainsAny(Strip(Lower(text)), {"ii", "iii", "iv", "jr", "sr", "filho", "neto"})

_is_valid_entity_for_type(text, label) ==
  LET text_clean == Strip(Lower(text))
  IN CASE label \in {"PERSON", "PER"} ->
            /\ WordCount(text) >= 2
            /\ AnyCharIn(text, UpperLetters)
            /\ ~ContainsAny(text_clean, job_patterns)
       [] label = "ORG" ->
            /\ Len(text) >= 3
            /\ text_clean \notin {"cnh", "cpf", "rg"}
            /\ ~ContainsAny(text_clean, job_patterns)
       [] label \in {"GPE", "LOC", "FAC"} ->
            /\ Len(text) >= 3
            /\ text_clean \notin {"use", "cargo", "setor", "matrícula"}
            /\ ~ContainsAny(text_clean, job_patterns)
       [] label = "MISC" ->
            /\ Len(text) >= 4
            /\ ~ContainsAny(text_clean, job_patterns)
            /\ ~ContainsAny(text_clean,
                            {"setor", "operações", "artigo", "disciplinar", "matrícula"})
       [] OTHER -> TRUE

\* The loop body of _extract_entities: whether ent, an entity of doc.ents
\* with the text ent_text, is kept.
EntityKept(ent_text, label) ==
  LET text_lower == Strip(Lower(ent_text))
  IN /\ Len(Strip(ent_text)) >= 3
     /\ ~(IsDigitStr(Strip(ent_text)) \/ ~AnyCharIn(ent_text, Letters))
     /\ text_lower \notin false_positives
     /\ ~(\/ Contains(ent_text, "[")
          \/ Contains(ent_text, "]")
          \/ Contains(ent_text, "_")
          \/ IsUpperStr(ent_text)
          \/ IsDigitStr(ent_text))
     /\ ~(Len(Strip(ent_text)) <= 2 \/ text_lower \in generic_words)
     /\ ~(AnyCharIn(ent_text, Digits) /\ ~_is_valid_name_with_numbers(ent_text))
     /\ _is_valid_entity_for_type(ent_text, label)

\* doc is the classifier's outcome for text: [raises |-> TRUE] when
\* self.nlp(text) raises, else doc.ents as a sequence of
\* [label_, start_char, end_char]; ent.text is text[start_char:end_char].
RECURSIVE ExtractLoop(_, _)
ExtractLoop(text, ents) ==
  IF ents = <<>> THEN <<>>
  ELSE LET ent == Head(ents)
           ent_text == Slice(text, ent.start_char, ent.end_char)
           more == ExtractLoop(text, Tail(ents))
       IN IF EntityKept(ent_text, ent.label_)
          THEN <<[type |-> _ENTITY_TYPE_MAPPING(ent.label_), value |-> ent_text,
                  span |-> <<ent.start_char, ent.end_char>>, confidence |-> 10,
                  spacy_label |-> ent.label_]>> \o more
          ELSE more

_extract_entities(text, doc) ==
  IF doc.raises THEN <<>> ELSE ExtractLoop(text, doc.ents)

\* Every occurrence of placeholder in text from offset start on, as spans;
\* the search resumes one character after each hit.
RECURSIVE OccurrencesFrom(_, _, _)
OccurrencesFrom(text, placeholder, start) ==
  LET pos == Find(text, placeholder, start)
  IN IF pos = -1 \/ start > Len(text) THEN {}
     ELSE {<<pos, pos + Len(placeholder)>>} \cup OccurrencesFrom(text, placeholder, pos + 1)

\* The spans of all occurrences of the placeholders of a list.
PlaceholderSpans(text, placeholders) ==
  UNION {OccurrencesFrom(text, placeholders[i], 0) : i \in 1..Len(placeholders)}

\* buffer = 10
buffer == 10

TooClose(entity, placeholder_spans) ==
  \E ph \in placeholder_spans :
    /\ entity.span[1] <= ph[2] + buffer
    /\ entity.span[2] >= ph[1] - buffer

_extract_entities_avoiding_placeholders(text, placeholders, doc) ==
  LET placeholder_spans == PlaceholderSpans(text, placeholders)
      all_entities == _extract_entities(text, doc)
  IN SelectSeq(all_entities, LAMBDA entity : ~TooClose(entity, placeholder_spans))

\* A sort key without the length: key=lambda x: x["span"][0]
EntityBeforeByStart(a, b) == a.span[1] < b.span[1]

\* key=lambda x: (x["span"][0], -(x["span"][1] - x["span"][0]))
EntityBefore(a, b) ==
  \/ a.span[1] < b.span[1]
  \/ (a.span[1] = b.span[1] /\ (a.span[2] - a.span[1]) > (b.span[2] - b.span[1]))

RECURSIVE KeepLoop(_, _)
KeepLoop(entities, last_end) ==
  IF entities = <<>> THEN <<>>
  ELSE LET entity == Head(entities)
       IN IF entity.span[1] >= last_end
          THEN <<entity>> \o KeepLoop(Tail(entities), entity.span[2])
          ELSE KeepLoop(Tail(entities), last_end)

_filter_overlapping_entities(entities) ==
  IF entities = <<>> THEN <<>>
  ELSE KeepLoop(StableSort(entities, EntityBefore), -1)

\* key=lambda x: x["span"][0], reverse=True
EntityAfter(a, b) == a.span[1] > b.span[1]

\* f"[{pii_type}_{i+1}]" for the entity at index i (0-based) of the list in
\* descending start order
NerPlaceholder(pii_type, i) == Placeholder(pii_type, i + 1)

\* The loop with the other span convention: the span recorded is the place of
\* the placeholder, not of the value.
RECURSIVE NerReplaceLoopPlaceholderSpan(_, _, _, _)
NerReplaceLoopPlaceholderSpan(entities, i, filtered_text, pii_mappings) ==
  IF i >= Len(entities) THEN <<filtered_text, Reverse(pii_mappings)>>
  ELSE LET entity == entities[i + 1]
           placeholder == NerPlaceholder(entity.type, i)
       IN NerReplaceLoopPlaceholderSpan(
            entities, i + 1,
            Slice(filtered_text, 0, entity.span[1]) \o placeholder
              \o SliceFrom(filtered_text, entity.span[2]),
            Append(pii_mappings,
                   [placeholder |-> placeholder,
                    original_value |-> entity.value,
                    type |-> entity.type,
                    span |-> <<entity.span[1], entity.span[1] + Len(placeholder)>>]))

\* The substitution loop over the entities in descending start order, from
\* the i-th (0-based) on.
RECURSIVE NerReplaceLoop(_, _, _, _)
NerReplaceLoop(entities, i, filtered_text, pii_mappings) ==
  IF i >= Len(entities) THEN <<filtered_text, Reverse(pii_mappings)>>
  ELSE LET entity == entities[i + 1]
           placeholder == NerPlaceholder(entity.type, i)
       IN NerReplaceLoop(entities, i + 1,
                         Slice(filtered_text, 0, entity.span[1]) \o placeholder
                           \o SliceFrom(filtered_text, entity.span[2]),
                         Append(pii_mappings,
                                [placeholder |-> placeholder,
                                 original_value |-> entity.value,
                                 type |-> entity.type, span |-> entity.span]))

\* confidence_threshold = 0.5 and the default confidence 1.0, in tenths
confidence_threshold == 5

\* filter_by_ner(text, existing_placeholders=...): <<filtered_text, pii_mappings>>
filter_by_ner(text, existing_placeholders, doc) ==
  IF Strip(text) = "" THEN <<text, <<>>>>
  ELSE LET extracted == IF existing_placeholders # <<>>
                        THEN _extract_entities_avoiding_placeholders(
                               text, existing_placeholders, doc)
                        ELSE _extract_entities(text, doc)
           confident == SelectSeq(extracted,
                                  LAMBDA e : e.confidence >= confidence_threshold)
           entities == _filter_overlapping_entities(confident)
       IN IF entities = <<>> THEN <<text, <<>>>>
          ELSE NerReplaceLoop(StableSort(entities, EntityAfter), 0, text, <<>>)

\* self.ner_service.filter_by_ner(text, existing_placeholders): the second
\* positional parameter of filter_by_ner is confidence_threshold, so the
\* list is the threshold and existing_placeholders is None.  The entities
\* come from _extract_entities, and e.get("confidence", 1.0) >= <list>
\* raises TypeError for the first of them.  [text, mappings, raised]
FilterByNerPositional(text, threshold, doc) ==
  IF Strip(text) = "" THEN [text |-> text, mappings |-> <<>>, raised |-> ""]
  ELSE IF _extract_entities(text, doc) # <<>>
  THEN [text |-> text, mappings |-> <<>>, raised |-> "TypeError"]
  ELSE [text |-> text, mappings |-> <<>>, raised |-> ""]

(***************************************************************************)
(* services/local_llm_service.py: LocalLLMService                          *)
(***************************************************************************)

\* core/constants.py: SENSITIVE_CATEGORIES
SENSITIVE_CATEGORIES ==
  {"CONDICAO_DE_SAUDE", "INFORMACAO_FINANCEIRA_DETALHADA", "HISTORICO_DISCIPLINAR",
   "PROBLEMA_PESSOAL_FAMILIAR", "USUARIO_REDE", "IP_ADDRESS", "REGISTRO_PONTO",
   "CARGO", "DEPARTAMENTO", "MATRICULA", "SALARIO", "ENDERECO_COMPLETO",
   "ENDERECO_LOGRADOURO", "ENDERECO_BAIRRO", "ENDERECO_CIDADE", "NOME_BANCO",
   "AGENCIA_BANCARIA", "DATA_NASCIMENTO", "CONTA_BANCARIA"}

\* _find_placeholder_spans: the placeholders are made a set first
_find_placeholder_spans(text, placeholders) ==
  UNION {OccurrencesFrom(text, ph, 0) : ph \in {placeholders[i] : i \in 1..Len(placeholders)}}

\* start_pos < ph_end and end_pos > ph_start, for some placeholder span
OverlapsPlaceholder(start_pos, end_pos, placeholder_spans) ==
  \E ph \in placeholder_spans : start_pos < ph[2] /\ end_pos > ph[1]

\* The first loop: the fragments that have both keys, occur in text and do
\* not overlap a placeholder span, each with its start_pos.
RECURSIVE FoundFragments(_, _, _)
FoundFragments(text, fragments, placeholder_spans) ==
  IF fragments = <<>> THEN <<>>
  ELSE LET frag == Head(fragments)
           more == FoundFragments(text, Tail(fragments), placeholder_spans)
           start_pos == Find(text, frag.exact_text, 0)
           end_pos == start_pos + Len(frag.exact_text)
       IN IF frag.exact_text = "" \/ frag.category = "" THEN more
          ELSE IF start_pos = -1 THEN more
          ELSE IF OverlapsPlaceholder(start_pos, end_pos, placeholder_spans) THEN more
          ELSE <<[category |-> frag.category, exact_text |-> frag.exact_text,
                  start_pos |-> start_pos]>> \o more

\* key=lambda x: x["start_pos"], reverse=True
FragmentAfter(a, b) == a.start_pos > b.start_pos

\* A count that is not kept per pass: every fragment gets the ordinal 1.
TopicCountNotKept(found_fragments, k) == 1

\* counts[pii_type] after the increment made for the k-th fragment (1-based)
\* of the list in descending start order
TopicCount(found_fragments, k) ==
  CountOfType([i \in 1..k |-> [type |-> found_fragments[i].category]],
              found_fragments[k].category)

\* The second loop, from the k-th fragment on.
RECURSIVE TopicReplaceLoop(_, _, _, _)
TopicReplaceLoop(found_fragments, k, modified_text, mappings_found) ==
  IF k > Len(found_fragments) THEN <<modified_text, Reverse(mappings_found)>>
  ELSE LET fragment == found_fragments[k]
           start == fragment.start_pos
           end == start + Len(fragment.exact_text)
           placeholder == Placeholder(fragment.category, TopicCount(found_fragments, k))
       IN TopicReplaceLoop(found_fragments, k + 1,
                           Slice(modified_text, 0, start) \o placeholder
                             \o SliceFrom(modified_text, end),
                           Append(mappings_found,
                                  [placeholder |-> placeholder,
                                   original_value |-> fragment.exact_text,
                                   type |-> fragment.category,
                                   span |-> <<start, end>>]))

_replace_fragments_with_placeholders(text, fragments, placeholder_spans) ==
  TopicReplaceLoop(
    StableSort(FoundFragments(text, fragments, placeholder_spans), FragmentAfter),
    1, text, <<>>)

\* response is the backend's outcome: kind "error" (a RequestException or a
\* JSONDecodeError), "not_list" (sensitive_fragments is no list) or
\* "fragments" with the list.
filter_sensitive_topics(text, existing_placeholders, response) ==
  IF text = "" THEN <<text, <<>>>>
  ELSE IF response.kind # "fragments" THEN <<text, <<>>>>
  ELSE _replace_fragments_with_placeholders(
         text, response.fragments,
         _find_placeholder_spans(text, existing_placeholders))

\* The exception filter_sensitive_topics lets out, "" if none.  Its except
\* names RequestException and JSONDecodeError; data.get on a JSON value that
\* is no object and frag.get on an item that is no object raise
\* AttributeError, json.loads on a null "response" raises TypeError.
TopicException(text, response) ==
  IF text = "" THEN ""
  ELSE IF response.kind \in {"not_object", "items_not_objects"} THEN "AttributeError"
  ELSE IF response.kind = "null_response" THEN "TypeError"
  ELSE ""

(***************************************************************************)
(* services/restoration_service.py: RestorationService                     *)
(***************************************************************************)

\* key=lambda m: m.span[0], reverse=True
MappingAfter(a, b) == a.span[1] > b.span[1]

\* _generic_restore leaving its loop at the first mapping whose placeholder
\* is absent (break for continue).
RECURSIVE GenericRestoreLoopBreak(_, _, _, _)
GenericRestoreLoopBreak(layer, restored_text, sorted_mappings, order) ==
  IF sorted_mappings = <<>> THEN [text |-> restored_text, order |-> order]
  ELSE LET mapping == Head(sorted_mappings)
           found == Contains(restored_text, mapping.placeholder)
           logged == Append(order, [layer |-> layer, placeholder |-> mapping.placeholder,
                                    substituted |-> found])
       IN IF ~found THEN [text |-> restored_text, order |-> logged]
          ELSE GenericRestoreLoopBreak(
                 layer,
                 Replace(restored_text, mapping.placeholder, mapping.original_value),
                 Tail(sorted_mappings), logged)

\* The loop of _generic_restore over sorted_mappings: the text, and for each
\* mapping whether its placeholder was found and substituted.
RECURSIVE GenericRestoreLoop(_, _, _, _)
GenericRestoreLoop(layer, restored_text, sorted_mappings, order) ==
  IF sorted_mappings = <<>> THEN [text |-> restored_text, order |-> order]
  ELSE LET mapping == Head(sorted_mappings)
           found == Contains(restored_text, mapping.placeholder)
       IN GenericRestoreLoop(
            layer,
            IF found
            THEN Replace(restored_text, mapping.placeholder, mapping.original_value)
            ELSE restored_text,
            Tail(sorted_mappings),
            Append(order, [layer |-> layer, placeholder |-> mapping.placeholder,
                           substituted |-> found]))

GenericRestoreRun(layer, text, mappings, order) ==
  IF mappings = <<>> THEN [text |-> text, order |-> order]
  ELSE GenericRestoreLoop(layer, text, StableSort(mappings, MappingAfter), order)

_generic_restore(text, mappings) == GenericRestoreRun("", text, mappings, <<>>).text

\* The order in which restore_pii_from_mappings goes through its list.
RegexRestoreOrder(text, mappings) ==
  [i \in 1..Len(mappings) |->
     [layer |-> "regex", placeholder |-> mappings[i].placeholder,
      substituted |->
        Contains(restore_pii_from_mappings(text, SubSeq(mappings, 1, i - 1)),
                 mappings[i].placeholder)]]

\* restore_all going through the lists in another order: the entity
\* detector's mappings before the topic extractor's.
RestoreAllRunNerFirst(filtered_text, restoration_data) ==
  IF filtered_text = "" THEN [text |-> filtered_text, order |-> <<>>]
  ELSE LET ner == GenericRestoreRun("ner", filtered_text,
                                    restoration_data.ner_mappings, <<>>)
           llm == GenericRestoreRun("llm", ner.text,
                                    restoration_data.llm_mappings, ner.order)
       IN [text |-> restore_pii_from_mappings(llm.text, restoration_data.regex_mappings),
           order |-> llm.order \o RegexRestoreOrder(llm.text, restoration_data.regex_mappings)]

\* restore_all, with the order in which the mappings were gone through:
\* [text, order].  restoration_data is [regex_mappings, ner_mappings,
\* llm_mappings].
RestoreAllRun(filtered_text, restoration_data) ==
  IF filtered_text = "" THEN [text |-> filtered_text, order |-> <<>>]
  ELSE LET llm == GenericRestoreRun("llm", filtered_text,
                                    restoration_data.llm_mappings, <<>>)
           ner == GenericRestoreRun("ner", llm.text,
                                    restoration_data.ner_mappings, llm.order)
       IN [text |-> restore_pii_from_mappings(ner.text, restoration_data.regex_mappings),
           order |-> ner.order \o RegexRestoreOrder(ner.text, restoration_data.regex_mappings)]

restore_all(filtered_text, restoration_data) ==
  RestoreAllRun(filtered_text, restoration_data).text

\* placeholder_pattern = re.compile(r"\[[A-Z_]+_\d+\]")
placeholder_pattern ==
  <<Cls({"["}, 1, 1), Cls(UpperLetters \cup {"_"}, 1, Unbounded), Cls({"_"}, 1, 1),
    Cls(Digits, 1, Unbounded), Cls({"]"}, 1, 1)>>

\* placeholder_pattern.findall(text), as spans
remaining_placeholders(text) == FindIter(placeholder_pattern, text, 0)

\* True if no placeholder is found in the text
_check_restoration_integrity(text) == remaining_placeholders(text) = <<>>

create_restoration_data(regex_mappings, ner_mappings, llm_mappings) ==
  [regex_mappings |-> regex_mappings, ner_mappings |-> ner_mappings,
   llm_mappings |-> llm_mappings]

(***************************************************************************)
(* The same operations on an input with a fault, where the code's          *)
(* try/except decides what becomes of the exception.  A fault is           *)
(* [kind, layer, at, exception]: the element number `at` of the list       *)
(* `layer` makes the statement named by `kind` raise `exception`.          *)
(***************************************************************************)

\* except (ValueError, TypeError)
ValueOrTypeError == {"ValueError", "TypeError"}

\* except (ValueError, TypeError, RuntimeError)
RestoreAllCatches == {"ValueError", "TypeError", "RuntimeError"}

\* The for loop of _find_all_matches over one type's candidates, from
\* candidate number k on: the candidates appended, and the exception that
\* ended the loop ("" if none).  bad.kind is "validate" (validate_pii raises)
\* or "normalize" (normalize_pii_value raises).
RECURSIVE MatchesOfTypeRaising(_, _, _, _, _, _)
MatchesOfTypeRaising(pii_type, text, spans, validate_pii_data, k, bad) ==
  IF spans = <<>> THEN [matches |-> <<>>, exception |-> ""]
  ELSE LET span == Head(spans)
           pii_value == Slice(text, span[1], span[2])
           here == bad.layer = pii_type /\ bad.at = k
       IN IF validate_pii_data /\ here /\ bad.kind = "validate"
          THEN [matches |-> <<>>, exception |-> bad.exception]
          ELSE IF validate_pii_data /\ ~validate_pii(pii_type, pii_value)
          THEN MatchesOfTypeRaising(pii_type, text, Tail(spans), validate_pii_data,
                                    k + 1, bad)
          ELSE IF here /\ bad.kind = "normalize"
          THEN [matches |-> <<>>, exception |-> bad.exception]
          ELSE LET more == MatchesOfTypeRaising(pii_type, text, Tail(spans),
                                                validate_pii_data, k + 1, bad)
               IN [matches |->
                     <<[match |-> span, type |-> pii_type, value |-> pii_value,
                        normalized_value |-> normalize_pii_value(pii_type, pii_value)]>>
                     \o more.matches,
                   exception |-> more.exception]

\* The outer loop of _find_all_matches from type number i on: the try
\* around the inner loop passes to the next type on ValueError and TypeError
\* and lets every other exception out.
RECURSIVE FindAllRaising(_, _, _, _)
FindAllRaising(i, text, validate_pii_data, bad) ==
  IF i > Len(PatternTypes) THEN [matches |-> <<>>, caught |-> <<>>, raised |-> ""]
  ELSE LET own == MatchesOfTypeRaising(PatternTypes[i], text,
                                       FindIter(PII_PATTERNS(PatternTypes[i]), text, 0),
                                       validate_pii_data, 1, bad)
       IN IF own.exception # "" /\ own.exception \notin ValueOrTypeError
          THEN [matches |-> own.matches, caught |-> <<>>, raised |-> own.exception]
          ELSE LET more == FindAllRaising(i + 1, text, validate_pii_data, bad)
               IN [matches |-> own.matches \o more.matches,
                   caught |-> (IF own.exception = "" THEN <<>> ELSE <<own.exception>>)
                              \o more.caught,
                   raised |-> more.raised]

\* filter_by_regex: [found, kept, text, mappings, caught, raised]
FilterByRegexRaising(text, validate_pii_data, bad) ==
  LET none == [found |-> <<>>, kept |-> <<>>, text |-> text, mappings |-> <<>>,
               caught |-> <<>>, raised |-> ""]
  IN IF text = "" THEN none
     ELSE LET all == FindAllRaising(1, text, validate_pii_data, bad)
          IN IF all.raised # "" THEN [none EXCEPT !.raised = all.raised]
             ELSE IF all.matches = <<>> THEN [none EXCEPT !.caught = all.caught]
             ELSE LET kept == _handle_overlaps(all.matches)
                      result == _replace_pii_with_placeholders(text, kept)
                  IN [found |-> all.matches, kept |-> kept, text |-> result[1],
                      mappings |-> result[2], caught |-> all.caught, raised |-> ""]

TaggedAfter(a, b) == MappingAfter(a.mapping, b.mapping)

\* The loop of _generic_restore where str.replace raises for the tagged
\* mapping: the except of the loop body logs it and goes on.
RECURSIVE GenericRestoreLoopRaising(_, _, _, _, _, _)
GenericRestoreLoopRaising(layer, restored_text, sorted_tagged, order, caught, bad) ==
  IF sorted_tagged = <<>>
  THEN [text |-> restored_text, order |-> order, caught |-> caught, exception |-> ""]
  ELSE LET mapping == Head(sorted_tagged).mapping
           found == Contains(restored_text, mapping.placeholder)
           raises == found /\ Head(sorted_tagged).bad
       IN IF raises /\ bad.exception \notin ValueOrTypeError
          THEN [text |-> restored_text, order |-> order, caught |-> caught,
                exception |-> bad.exception]
          ELSE GenericRestoreLoopRaising(
                 layer,
                 IF found /\ ~raises
                 THEN Replace(restored_text, mapping.placeholder, mapping.original_value)
                 ELSE restored_text,
                 Tail(sorted_tagged),
                 Append(order, [layer |-> layer, placeholder |-> mapping.placeholder,
                                substituted |-> found /\ ~raises]),
                 IF raises THEN Append(caught, bad.exception) ELSE caught,
                 bad)

\* _generic_restore: sorted() evaluates m.span of every mapping outside any
\* try, so a fault of kind "mapping" (the element has no span) or "span"
\* (the span has no [0]) leaves the function before the loop.
GenericRestoreRaising(layer, text, mappings, order, caught, bad) ==
  LET at == IF bad.layer = layer /\ bad.at <= Len(mappings) THEN bad.at ELSE 0
      tagged == [i \in 1..Len(mappings) |->
                   [mapping |-> mappings[i],
                    bad |-> i = at /\ bad.kind = "original_value"]]
  IN IF mappings = <<>>
     THEN [text |-> text, order |-> order, caught |-> caught, exception |-> ""]
     ELSE IF at > 0 /\ bad.kind \in {"mapping", "span"}
     THEN [text |-> text, order |-> order, caught |-> caught,
           exception |-> bad.exception]
     ELSE GenericRestoreLoopRaising(layer, text, StableSort(tagged, TaggedAfter),
                                    order, caught, bad)

\* restore_pii_from_mappings from mapping number i on: str.replace is called
\* for every mapping, inside a try that catches ValueError and TypeError only.
RECURSIVE RegexRestoreRaising(_, _, _, _, _, _)
RegexRestoreRaising(restored_text, mappings, i, order, caught, bad) ==
  IF i > Len(mappings)
  THEN [text |-> restored_text, order |-> order, caught |-> caught, exception |-> ""]
  ELSE LET here == bad.layer = "regex" /\ bad.at = i
           found == ~(here /\ bad.kind = "mapping")
                    /\ Contains(restored_text, mappings[i].placeholder)
           raises == here /\ bad.kind \in {"mapping", "original_value"}
       IN IF raises /\ bad.exception \notin ValueOrTypeError
          THEN [text |-> restored_text, order |-> order, caught |-> caught,
                exception |-> bad.exception]
          ELSE RegexRestoreRaising(
                 IF found /\ ~raises
                 THEN Replace(restored_text, mappings[i].placeholder,
                              mappings[i].original_value)
                 ELSE restored_text,
                 mappings, i + 1,
                 Append(order, [layer |-> "regex", placeholder |-> mappings[i].placeholder,
                                substituted |-> found /\ ~raises]),
                 IF raises THEN Append(caught, bad.exception) ELSE caught,
                 bad)

\* What the try of restore_all makes of the exception of one of its three
\* calls: ValueError, TypeError and RuntimeError return filtered_text, every
\* other exception leaves restore_all.
RestoreAllExcept(filtered_text, run) ==
  IF run.exception \in RestoreAllCatches
  THEN [text |-> filtered_text, order |-> run.order,
        caught |-> Append(run.caught, run.exception), raised |-> ""]
  ELSE [text |-> filtered_text, order |-> run.order, caught |-> run.caught,
        raised |-> run.exception]

\* restore_all: [text, order, caught, raised]
RestoreAllRaising(filtered_text, restoration_data, bad) ==
  IF filtered_text = ""
  THEN [text |-> filtered_text, order |-> <<>>, caught |-> <<>>, raised |-> ""]
  ELSE LET llm == GenericRestoreRaising("llm", filtered_text,
                                        restoration_data.llm_mappings, <<>>, <<>>, bad)
           ner == GenericRestoreRaising("ner", llm.text,
                                        restoration_data.ner_mappings, llm.order,
                                        llm.caught, bad)
           regex == RegexRestoreRaising(ner.text, restoration_data.regex_mappings, 1,
                                        ner.order, ner.caught, bad)
       IN IF llm.exception # "" THEN RestoreAllExcept(filtered_text, llm)
          ELSE IF ner.exception # "" THEN RestoreAllExcept(filtered_text, ner)
          ELSE IF regex.exception # "" THEN RestoreAllExcept(filtered_text, regex)
          ELSE [text |-> regex.text, order |-> regex.order, caught |-> regex.caught,
                raised |-> ""]

(***************************************************************************)
(* Inputs.  A text is a concatenation of at most MaxSegs segments of a     *)
(* vocabulary; the collaborators (the classifier behind self.nlp, the      *)
(* Ollama backend) answer with any list, of bounded length, over a pool    *)
(* of strings.                                                             *)
(***************************************************************************)
MaxSegs == 2

MaxEnts == 2

MaxFrags == 2

RECURSIVE TextsOver(_, _)
TextsOver(vocabulary, n) ==
  IF n = 0 THEN {""}
  ELSE LET shorter == TextsOver(vocabulary, n - 1)
       IN shorter \cup {t \o seg : t \in shorter, seg \in vocabulary}

\* Segments with matches of every pattern, overlapping matches of several
\* patterns, a repeated value and a placeholder-shaped literal.
RegexVocabulary ==
  {"(11) 1234 5678", "9-012.345.678-90", "a@b.co", " ", "[EMAIL_1]",
   "12345678901", "111.111.111-11", "12.345.678-9"}

\* Segments with a person, an organisation and the placeholder of an
\* earlier pass.
WordVocabulary == {"Ana Lima", " trabalha na Acme", "[CPF_1]", " "}

\* The request texts of the pipeline.
PipelineVocabulary ==
  {"Ana Lima", " trabalha na Acme", "a@b.co", "[EMAIL_1]",
   "(11) 1234 5678", "9-012.345.678-90"}

\* The lists of placeholders a caller may hand to a detector.
PlaceholderLists == {<<>>, <<"[CPF_1]">>}

\* The sequences of at most n elements of set.
RECURSIVE SeqsUpTo(_, _)
SeqsUpTo(set, n) ==
  IF n = 0 THEN {<<>>}
  ELSE LET shorter == SeqsUpTo(set, n - 1)
       IN shorter \cup {Append(q, x) : q \in shorter, x \in set}

EntityTexts == {"Ana Lima", "Ana", "Acme", "na Acme", "a[CPF", "Lima Neto"}

EntityLabels == {"PER", "ORG", "MISC"}

\* The occurrences in text of the strings of the pool, each with a label.
EntityCandidates(text) ==
  {[label_ |-> label, start_char |-> span[1], end_char |-> span[2]] :
     label \in EntityLabels,
     span \in UNION {OccurrencesFrom(text, value, 0) : value \in EntityTexts}}

\* doc.ents is in the order of the text and holds no span twice.
EntPrecedes(a, b) ==
  \/ a.start_char < b.start_char
  \/ (a.start_char = b.start_char /\ a.end_char < b.end_char)

RECURSIVE EntsUpTo(_, _)
EntsUpTo(candidates, n) ==
  IF n = 0 THEN {<<>>}
  ELSE LET shorter == EntsUpTo(candidates, n - 1)
           longest == {q \in shorter : Len(q) = n - 1}
       IN shorter
          \cup UNION {{Append(q, x) : x \in {c \in candidates :
                                               q = <<>> \/ EntPrecedes(q[Len(q)], c)}} :
                      q \in longest}

\* The outcomes of self.nlp(text): it raises, or doc.ents is a list of at
\* most MaxEnts entities, each an occurrence in text of a string of the pool.
ClassifierOutcomes(text) ==
  {[raises |-> TRUE, ents |-> <<>>]}
  \cup {[raises |-> FALSE, ents |-> ents] :
          ents \in EntsUpTo(EntityCandidates(text), MaxEnts)}

FragmentTexts == {"Ana Lima", " trabalha na Acme", "trabalha na ", "a[CPF", "zzz"}

\* The categories of the backend's answer: one of SENSITIVE_CATEGORIES, and
\* one in the backend's own words, which is not in the list.
FragmentCategories == {"CARGO", "Saude"}

\* The outcomes of the backend call: it fails, it answers with something
\* that is no list, or with a list of at most MaxFrags fragments; a fragment
\* of the pool may or may not occur in the text.
\* A fragment the backend gives the category it reads in the placeholder
\* next to it: the rest of a name after the placeholder of the name.
EchoedFragments(text) ==
  {f \in {[category |-> "NOME_PESSOA", exact_text |-> "Neto"]} : Contains(text, f.exact_text)}

BackendOutcomes(text) ==
  {[kind |-> k, fragments |-> <<>>] :
     k \in {"error", "not_list", "not_object", "null_response", "items_not_objects"}}
  \cup {[kind |-> "fragments", fragments |-> fragments] :
          fragments \in SeqsUpTo({[category |-> c, exact_text |-> t] :
                                    c \in FragmentCategories,
                                    t \in {f \in FragmentTexts : f = "zzz" \/ Contains(text, f)}}
                                 \cup EchoedFragments(text),
                                 MaxFrags)}

\* What self.nlp answers: a pipeline without a trained classifier (the blank
\* Portuguese() of the constructor, with or without the "ner" pipe it adds)
\* names no entity, or raises.
PipelineOutcomes(pipeline, text) ==
  IF pipeline = "blank"
  THEN {[raises |-> r, ents |-> <<>>] : r \in BOOLEAN}
  ELSE ClassifierOutcomes(text)

MaxCandidate == 2

\* validate_pii or normalize_pii_value raising for one candidate of one type
CandidateFaults ==
  {[kind |-> k, layer |-> PatternTypes[t], at |-> n, exception |-> e] :
     k \in {"validate", "normalize"}, t \in 1..Len(PatternTypes),
     n \in 1..MaxCandidate, e \in {"ValueError", "KeyError"}}

\* One element of one list handed to restore_all: an original_value that is
\* no str (str.replace raises TypeError), a span without [0] (TypeError in
\* the sort key), or an element without the attributes of a PIIMapping
\* (AttributeError).
RestoreFaults(regex, ner, llm) ==
  LET lists == [regex |-> regex, ner |-> ner, llm |-> llm]
  IN UNION {{[kind |-> k[1], layer |-> l, at |-> n, exception |-> k[2]] :
               k \in {<<"original_value", "TypeError">>, <<"span", "TypeError">>,
                      <<"mapping", "AttributeError">>},
               n \in 1..Len(lists[l])} :
            l \in {"regex", "ner", "llm"}}

(***************************************************************************)
(* State.  The names are those of stream_generator's locals.               *)
(***************************************************************************)
VARIABLES
  pc,                    \* the next step
  done,                  \* the steps taken
  original_text,
  validate_pii_data,
  all_matches,           \* filter_by_regex: the candidates found
  unique_matches,        \* filter_by_regex: the candidates kept
  regex_filtered_text,
  regex_mappings,
  existing_placeholders, \* as handed to filter_by_ner
  doc,                   \* the classifier's outcome
  ner_filtered_text,
  ner_mappings,
  topic_placeholders,    \* as handed to filter_sensitive_topics
  response,              \* the backend's outcome
  llm_filtered_text,
  llm_mappings,
  llm_external_response,
  final_response_text,
  restore_order,         \* the mappings in the order restore_all went through them
  nlp,                   \* NERService.nlp: the pipeline the constructor left
  is_valid,              \* what validate_pii returned
  at,                    \* ProxyService: where each concurrent request stands
  on_loop,               \* the request whose coroutine the event loop runs, 0 if none
  in_thread,             \* the requests with a call running in a worker thread
  fault,                 \* the fault of the operation's input, if any
  caught,                \* the exceptions the last operation caught
  raised                 \* the exception the last operation let out, "" if none

vars ==
  <<pc, done, original_text, validate_pii_data, all_matches, unique_matches,
    regex_filtered_text, regex_mappings, existing_placeholders, doc,
    ner_filtered_text, ner_mappings, topic_placeholders, response,
    llm_filtered_text, llm_mappings, llm_external_response,
    final_response_text, restore_order, nlp, is_valid, at, on_loop, in_thread,
    fault, caught, raised>>

regex_vars == <<all_matches, unique_matches, regex_filtered_text, regex_mappings>>

ner_vars == <<existing_placeholders, doc, ner_filtered_text, ner_mappings>>

topic_vars == <<topic_placeholders, response, llm_filtered_text, llm_mappings>>

restore_vars == <<llm_external_response, final_response_text, restore_order>>

loop_vars == <<at, on_loop, in_thread>>

\* The concurrent requests of the event loop.
MaxRequests == 3

Requests == 1..MaxRequests

NoDoc == [raises |-> FALSE, ents |-> <<>>]

NoFault == [kind |-> "none", layer |-> "", at |-> 0, exception |-> ""]

NoResponse == [kind |-> "fragments", fragments |-> <<>>]

\* Nothing has run yet.
Fresh ==
  /\ done = {}
  /\ all_matches = <<>> /\ unique_matches = <<>>
  /\ regex_mappings = <<>>
  /\ doc = NoDoc /\ ner_mappings = <<>>
  /\ response = NoResponse /\ llm_mappings = <<>>
  /\ llm_external_response = "" /\ final_response_text = ""
  /\ restore_order = <<>>
  /\ is_valid = FALSE
  /\ at = [r \in Requests |-> "start"] /\ on_loop = 0 /\ in_thread = {}
  /\ fault = NoFault /\ caught = <<>> /\ raised = ""

(***************************************************************************)
(* The steps.                                                              *)
(***************************************************************************)

\* regex_service.filter_by_regex(original_text, validate_pii_data)
RegexStep(next) ==
  LET result == filter_by_regex(original_text, validate_pii_data)
      found == IF original_text = "" THEN <<>>
               ELSE _find_all_matches(original_text, validate_pii_data)
  IN /\ all_matches' = found
     /\ unique_matches' = _handle_overlaps(found)
     /\ regex_filtered_text' = result[1]
     /\ regex_mappings' = result[2]
     /\ done' = done \cup {"regex"}
     /\ pc' = next
     /\ caught' = <<>> /\ raised' = ""
     /\ UNCHANGED <<original_text, validate_pii_data, is_valid, loop_vars, ner_vars, topic_vars, restore_vars,
                    nlp, fault>>

\* filter_by_regex where validate_pii or normalize_pii_value raises for one
\* candidate
RegexStepRaising(next) ==
  \E bad \in CandidateFaults :
    LET run == FilterByRegexRaising(original_text, validate_pii_data, bad)
    IN /\ fault' = bad
       /\ caught' = run.caught
       /\ raised' = run.raised
       /\ IF run.raised = ""
          THEN /\ all_matches' = run.found
               /\ unique_matches' = run.kept
               /\ regex_filtered_text' = run.text
               /\ regex_mappings' = run.mappings
               /\ done' = done \cup {"regex"}
               /\ pc' = next
          ELSE /\ pc' = "regex_failed"
               /\ UNCHANGED <<regex_vars, done>>
       /\ UNCHANGED <<original_text, validate_pii_data, is_valid, loop_vars, ner_vars, topic_vars,
                      restore_vars, nlp>>

\* ner_service.filter_by_ner(text, existing_placeholders=placeholders), for
\* each outcome of the classifier
NerStep(placeholders, next) ==
  \E outcome \in PipelineOutcomes(nlp, regex_filtered_text) :
    LET result == filter_by_ner(regex_filtered_text, placeholders, outcome)
    IN /\ existing_placeholders' = placeholders
       /\ doc' = outcome
       /\ ner_filtered_text' = result[1]
       /\ ner_mappings' = result[2]
       /\ done' = done \cup {"ner"}
       /\ pc' = next
       /\ caught' = IF outcome.raises /\ Strip(regex_filtered_text) # ""
                    THEN <<"Exception">> ELSE <<>>
       /\ raised' = ""
       /\ UNCHANGED <<original_text, validate_pii_data, is_valid, loop_vars, regex_vars, topic_vars, restore_vars,
                      nlp, fault>>

\* llm_service.filter_sensitive_topics(text, placeholders), for each outcome
\* of the backend
TopicStep(placeholders, next) ==
  \E outcome \in BackendOutcomes(ner_filtered_text) :
    LET result == filter_sensitive_topics(ner_filtered_text, placeholders, outcome)
        exception == TopicException(ner_filtered_text, outcome)
    IN /\ topic_placeholders' = placeholders
       /\ response' = outcome
       /\ raised' = exception
       /\ caught' = IF outcome.kind = "error" /\ ner_filtered_text # ""
                    THEN <<"RequestException">> ELSE <<>>
       /\ IF exception = ""
          THEN /\ llm_filtered_text' = result[1]
               /\ llm_mappings' = result[2]
               /\ done' = done \cup {"topic"}
               /\ pc' = next
          ELSE /\ pc' = "topic_failed"
               /\ UNCHANGED <<llm_filtered_text, llm_mappings, done>>
       /\ UNCHANGED <<original_text, validate_pii_data, is_valid, loop_vars, regex_vars, ner_vars, restore_vars,
                      nlp, fault>>

PlaceholdersOf(mappings) == [i \in 1..Len(mappings) |-> mappings[i].placeholder]

(***************************************************************************)
(* api/proxy.py: process_prompt_stream.stream_generator                    *)
(***************************************************************************)
Init ==
  /\ pc = "regex"
  /\ original_text \in TextsOver(PipelineVocabulary, MaxSegs)
  /\ validate_pii_data = FALSE
  /\ regex_filtered_text = "" /\ ner_filtered_text = "" /\ llm_filtered_text = ""
  /\ existing_placeholders = <<>> /\ topic_placeholders = <<>>
  /\ nlp = "loaded"
  /\ Fresh

\* Step 1
DetectRegex == pc = "regex" /\ RegexStep("ner")

\* Step 2: existing_placeholders are the placeholders of regex_mappings.
DetectNer == pc = "ner" /\ NerStep(PlaceholdersOf(regex_mappings), "topic")

\* Step 3: filter_sensitive_topics(processed_text), no placeholders given.
DetectTopics == pc = "topic" /\ TopicStep(<<>>, "external")

\* Step 4 sending the text of step 2, not of step 3.
CallExternalLLMBeforeTopics ==
  /\ pc = "external"
  /\ llm_external_response' = ner_filtered_text
  /\ done' = done \cup {"external"}
  /\ pc' = "restore"
  /\ caught' = <<>> /\ raised' = ""
  /\ UNCHANGED <<original_text, validate_pii_data, is_valid, loop_vars, regex_vars, ner_vars, topic_vars,
                 final_response_text, restore_order, nlp, fault>>

\* Step 4: llm_external_response = processed_text
CallExternalLLM ==
  /\ pc = "external"
  /\ llm_external_response' = llm_filtered_text
  /\ done' = done \cup {"external"}
  /\ pc' = "restore"
  /\ caught' = <<>> /\ raised' = ""
  /\ UNCHANGED <<original_text, validate_pii_data, is_valid, loop_vars, regex_vars, ner_vars, topic_vars,
                 final_response_text, restore_order, nlp, fault>>

\* restoration_service.restore_all(llm_external_response, restoration_data)
RestoreStep(next) ==
  /\ LET run == RestoreAllRun(llm_external_response,
                              create_restoration_data(regex_mappings, ner_mappings,
                                                      llm_mappings))
     IN /\ final_response_text' = run.text
        /\ restore_order' = run.order
  /\ done' = done \cup {"restore"}
  /\ pc' = next
  /\ caught' = <<>> /\ raised' = ""
  /\ UNCHANGED <<original_text, validate_pii_data, is_valid, loop_vars, regex_vars, ner_vars, topic_vars,
                 llm_external_response, nlp, fault>>

\* restore_all where one element of one of the three lists is at fault
RestoreStepRaising(next) ==
  \E bad \in RestoreFaults(regex_mappings, ner_mappings, llm_mappings) :
    LET run == RestoreAllRaising(llm_external_response,
                                 create_restoration_data(regex_mappings, ner_mappings,
                                                         llm_mappings),
                                 bad)
    IN /\ fault' = bad
       /\ caught' = run.caught
       /\ raised' = run.raised
       /\ restore_order' = run.order
       /\ IF run.raised = ""
          THEN /\ final_response_text' = run.text
               /\ done' = done \cup {"restore"}
               /\ pc' = next
          ELSE /\ pc' = "restore_failed"
               /\ UNCHANGED <<final_response_text, done>>
       /\ UNCHANGED <<original_text, validate_pii_data, is_valid, loop_vars, regex_vars, ner_vars, topic_vars,
                      llm_external_response, nlp>>

\* Step 5: restore_all(llm_external_response, restoration_data)
RestorePII == pc = "restore" /\ RestoreStep("done")

Next == DetectRegex \/ DetectNer \/ DetectTopics \/ CallExternalLLM \/ RestorePII

Spec == Init /\ [][Next]_vars

(***************************************************************************)
(* stream_generator on a few requests: nothing to mask, one stage with     *)
(* something to mask, all three, a telephone number that starts with one   *)
(* postal code and runs into a second one, and a name that two entities    *)
(* can share.                                                              *)
(***************************************************************************)
RequestTexts ==
  {"", " ", "Ana Lima", "a@b.co", "a@b.co trabalha na Acme", "55111234 56781234",
   "Ana Lima Neto"}

InitRequest ==
  /\ pc = "regex"
  /\ original_text \in RequestTexts
  /\ validate_pii_data = FALSE
  /\ regex_filtered_text = "" /\ ner_filtered_text = "" /\ llm_filtered_text = ""
  /\ existing_placeholders = <<>> /\ topic_placeholders = <<>>
  /\ nlp = "loaded"
  /\ Fresh

SpecRequest == InitRequest /\ [][Next]_vars

(***************************************************************************)
(* Each detector on its own, on any text and with any list of             *)
(* placeholders of the caller.                                             *)
(***************************************************************************)
InitRegexPass ==
  /\ pc = "regex_pass"
  /\ original_text \in TextsOver(RegexVocabulary, MaxSegs)
  /\ validate_pii_data \in BOOLEAN
  /\ regex_filtered_text = "" /\ ner_filtered_text = "" /\ llm_filtered_text = ""
  /\ existing_placeholders = <<>> /\ topic_placeholders = <<>>
  /\ nlp = "loaded"
  /\ Fresh

InitNerPass ==
  /\ pc = "ner_init"
  /\ original_text \in TextsOver(WordVocabulary, MaxSegs)
  /\ validate_pii_data = FALSE
  /\ regex_filtered_text = original_text
  /\ existing_placeholders \in PlaceholderLists
  /\ ner_filtered_text = "" /\ llm_filtered_text = ""
  /\ topic_placeholders = <<>>
  /\ nlp = "unset"
  /\ Fresh

InitTopicPass ==
  /\ pc = "topic_pass"
  /\ original_text \in TextsOver(WordVocabulary, MaxSegs)
  /\ validate_pii_data = FALSE
  /\ regex_filtered_text = original_text /\ ner_filtered_text = original_text
  /\ existing_placeholders = <<>>
  /\ topic_placeholders \in PlaceholderLists
  /\ llm_filtered_text = ""
  /\ nlp = "loaded"
  /\ Fresh

InitDetectors == InitRegexPass \/ InitNerPass \/ InitTopicPass

RegexPass == pc = "regex_pass" /\ RegexStep("regex_restore")

\* restore_pii_from_mappings on the result of the pass
RegexRestore ==
  /\ pc = "regex_restore"
  /\ final_response_text' = restore_pii_from_mappings(regex_filtered_text, regex_mappings)
  /\ done' = done \cup {"regex_restore"}
  /\ pc' = "done"
  /\ caught' = <<>> /\ raised' = ""
  /\ UNCHANGED <<original_text, validate_pii_data, is_valid, loop_vars, regex_vars, ner_vars, topic_vars,
                 llm_external_response, restore_order, nlp, fault>>

\* NERService(): spacy.load(model_name) returns the trained pipeline, or
\* raises OSError (the model is not installed), or raises something else.
\* The constructor catches OSError and goes on with Portuguese().
NerConstruct ==
  /\ pc = "ner_init"
  /\ \E load \in {"loaded", "OSError", "ValueError"} :
       /\ nlp' = IF load = "loaded" THEN "loaded"
                 ELSE IF load = "OSError" THEN "blank" ELSE "unset"
       /\ fault' = IF load = "loaded" THEN NoFault
                   ELSE [kind |-> "model_not_loaded", layer |-> "ner", at |-> 0,
                         exception |-> load]
       /\ caught' = IF load = "OSError" THEN <<"OSError">> ELSE <<>>
       /\ raised' = IF load = "ValueError" THEN load ELSE ""
       /\ pc' = IF load = "ValueError" THEN "init_failed" ELSE "ner_pass"
  /\ UNCHANGED <<done, original_text, validate_pii_data, is_valid, loop_vars, regex_vars, ner_vars,
                 topic_vars, restore_vars>>

NerPass == pc = "ner_pass" /\ NerStep(existing_placeholders, "done")

TopicPass == pc = "topic_pass" /\ TopicStep(topic_placeholders, "done")

NextDetectors == RegexPass \/ RegexRestore \/ NerConstruct \/ NerPass \/ TopicPass

SpecDetectors == InitDetectors /\ [][NextDetectors]_vars

(***************************************************************************)
(* restore_all on its own, on any text (the answer of the external model)  *)
(* and any three lists of mappings.                                        *)
(***************************************************************************)
MaxMaps == 2

\* The answers of the external model: texts with placeholders of the three
\* lists, kept, repeated or lost.
RestoreTexts ==
  {"", "x", "[CARGO_1] [NOME_PESSOA_1] [EMAIL_1]", "[CARGO_2] [ORGANIZACAO_2]",
   "[EMAIL_1] [EMAIL_1]", "[CPF_1] x [CARGO_1]", "[NOME_PESSOA_1][CARGO_2]"}

Mapping(placeholder, original_value, pii_type, start) ==
  [placeholder |-> placeholder, original_value |-> original_value,
   type |-> pii_type, span |-> <<start, start + Len(original_value)>>]

LlmMappingPool ==
  {Mapping("[CARGO_1]", "gerente", "CARGO", 0), Mapping("[CARGO_2]", "chefe", "CARGO", 9)}

NerMappingPool ==
  {Mapping("[NOME_PESSOA_1]", "Ana Lima", "NOME_PESSOA", 8),
   Mapping("[ORGANIZACAO_2]", "Acme", "ORGANIZACAO", 0)}

RegexMappingPool ==
  {Mapping("[EMAIL_1]", "a@b.co", "EMAIL", 17), Mapping("[CPF_1]", "012.345.678-90", "CPF", 0)}

RestoreInputs ==
  /\ done = {}
  /\ original_text = "" /\ validate_pii_data = FALSE
  /\ all_matches = <<>> /\ unique_matches = <<>>
  /\ regex_filtered_text = "" /\ ner_filtered_text = "" /\ llm_filtered_text = ""
  /\ existing_placeholders = <<>> /\ topic_placeholders = <<>>
  /\ doc = NoDoc /\ response = NoResponse
  /\ regex_mappings \in SeqsUpTo(RegexMappingPool, MaxMaps)
  /\ ner_mappings \in SeqsUpTo(NerMappingPool, MaxMaps)
  /\ llm_mappings \in SeqsUpTo(LlmMappingPool, MaxMaps)
  /\ llm_external_response \in RestoreTexts
  /\ final_response_text = ""
  /\ restore_order = <<>>
  /\ nlp = "loaded"
  /\ is_valid = FALSE
  /\ at = [r \in Requests |-> "start"] /\ on_loop = 0 /\ in_thread = {}
  /\ fault = NoFault /\ caught = <<>> /\ raised = ""

InitRestore == pc = "restore_pass" /\ RestoreInputs

RestorePass == pc = "restore_pass" /\ RestoreStep("done")

NextRestore == RestorePass

SpecRestore == InitRestore /\ [][NextRestore]_vars

(***************************************************************************)
(* The pattern detector and restore_all on inputs with a fault.            *)
(***************************************************************************)
FaultTexts ==
  {"x", "a@b.co", "a@b.co a@b.co", "a@b.co 012.345.678-90 a@b.co",
   "012.345.678-90 111.111.111-11"}

InitRegexFaults ==
  /\ pc = "regex_faulty"
  /\ original_text \in FaultTexts
  /\ validate_pii_data \in BOOLEAN
  /\ regex_filtered_text = "" /\ ner_filtered_text = "" /\ llm_filtered_text = ""
  /\ existing_placeholders = <<>> /\ topic_placeholders = <<>>
  /\ nlp = "loaded"
  /\ Fresh

InitRestoreFaults == pc = "restore_faulty" /\ RestoreInputs

InitFaults == InitRegexFaults \/ InitRestoreFaults

RegexPassRaising == pc = "regex_faulty" /\ RegexStepRaising("done")

RestorePassRaising == pc = "restore_faulty" /\ RestoreStepRaising("done")

NextFaults == RegexPassRaising \/ RestorePassRaising

SpecFaults == InitFaults /\ [][NextFaults]_vars

(***************************************************************************)
(* api/proxy_service.py: ProxyService.  Its five stages, called in the     *)
(* order of their docstrings, each on what the stage before returned.  A   *)
(* stage has no try: what its service raises reaches the caller.           *)
(***************************************************************************)

\* What external_llm.send_prompt returns: the prompt's placeholders kept
\* (the prompt itself) or an answer without them.
ExternalAnswers(processed_text) == {processed_text, "x"}

InitProxyService ==
  /\ pc = "detect_pii_with_regex"
  /\ original_text \in TextsOver(PipelineVocabulary, MaxSegs)
  /\ validate_pii_data = TRUE
  /\ regex_filtered_text = "" /\ ner_filtered_text = "" /\ llm_filtered_text = ""
  /\ existing_placeholders = <<>> /\ topic_placeholders = <<>>
  /\ nlp = "loaded"
  /\ Fresh

\* filter_by_regex(original_text, validate_pii_data=True)
detect_pii_with_regex == pc = "detect_pii_with_regex" /\ RegexStep("detect_pii_with_ner")

\* asyncio.to_thread(self.ner_service.filter_by_ner, text, existing_placeholders),
\* the caller's existing_placeholders being those of the regex stage
detect_pii_with_ner ==
  /\ pc = "detect_pii_with_ner"
  /\ \E outcome \in PipelineOutcomes(nlp, regex_filtered_text) :
       LET run == FilterByNerPositional(regex_filtered_text,
                                        PlaceholdersOf(regex_mappings), outcome)
       IN /\ existing_placeholders' = <<>>
          /\ doc' = outcome
          /\ raised' = run.raised
          /\ caught' = IF outcome.raises /\ Strip(regex_filtered_text) # ""
                       THEN <<"Exception">> ELSE <<>>
          /\ IF run.raised = ""
             THEN /\ ner_filtered_text' = run.text
                  /\ ner_mappings' = run.mappings
                  /\ done' = done \cup {"ner"}
                  /\ pc' = "detect_sensitive_topics"
             ELSE /\ pc' = "ner_failed"
                  /\ UNCHANGED <<ner_filtered_text, ner_mappings, done>>
  /\ UNCHANGED <<original_text, validate_pii_data, is_valid, loop_vars, regex_vars, topic_vars, restore_vars,
                 nlp, fault>>

\* self.sensitive_topic_detector.filter_sensitive_topics(text)
detect_sensitive_topics ==
  pc = "detect_sensitive_topics" /\ TopicStep(<<>>, "call_external_llm")

\* asyncio.to_thread(self.external_llm.send_prompt, processed_text)
call_external_llm ==
  /\ pc = "call_external_llm"
  /\ llm_external_response' \in ExternalAnswers(llm_filtered_text)
  /\ done' = done \cup {"external"}
  /\ pc' = "restore_pii"
  /\ caught' = <<>> /\ raised' = ""
  /\ UNCHANGED <<original_text, validate_pii_data, is_valid, loop_vars, regex_vars, ner_vars, topic_vars,
                 final_response_text, restore_order, nlp, fault>>

\* restore_all(llm_response, create_restoration_data(...))
restore_pii == pc = "restore_pii" /\ RestoreStep("returned")

NextProxyService ==
  \/ detect_pii_with_regex
  \/ detect_pii_with_ner
  \/ detect_sensitive_topics
  \/ call_external_llm
  \/ restore_pii

SpecProxyService == InitProxyService /\ [][NextProxyService]_vars

(***************************************************************************)
(* utils/validators.py: validate_pii on values of the shape of a CPF.      *)
(***************************************************************************)

\* The first nine digits.
CpfBases == {"123456789", "987654321", "111111111", "012345678"}

\* cpf[0:3].cpf[3:6].cpf[6:9]-cpf[9:11]
Punctuated(cpf) ==
  Slice(cpf, 0, 3) \o "." \o Slice(cpf, 3, 6) \o "." \o Slice(cpf, 6, 9) \o "-"
  \o SliceFrom(cpf, 9)

\* Eleven digits, plain or punctuated, and values that are too short.
CpfValues ==
  LET plain == {b \o DigitChar(d1) \o DigitChar(d2) : b \in CpfBases, d1, d2 \in 0..9}
  IN plain \cup {Punctuated(v) : v \in plain} \cup CpfBases

InitValidators ==
  /\ pc = "validate"
  /\ original_text \in CpfValues
  /\ validate_pii_data = TRUE
  /\ regex_filtered_text = "" /\ ner_filtered_text = "" /\ llm_filtered_text = ""
  /\ existing_placeholders = <<>> /\ topic_placeholders = <<>>
  /\ nlp = "loaded"
  /\ Fresh

\* validate_pii("CPF", value)
ValidateCpf ==
  /\ pc = "validate"
  /\ is_valid' = validate_pii("CPF", original_text)
  /\ done' = done \cup {"validate"}
  /\ pc' = "done"
  /\ UNCHANGED <<original_text, validate_pii_data, loop_vars, regex_vars, ner_vars,
                 topic_vars, restore_vars, nlp, fault, caught, raised>>

NextValidators == ValidateCpf

SpecValidators == InitValidators /\ [][NextValidators]_vars

(***************************************************************************)
(* api/proxy_service.py on the asyncio event loop: concurrent requests.    *)
(* The loop runs one coroutine at a time, from one await to the next;      *)
(* asyncio.to_thread hands a call to a worker thread and yields the loop.  *)
(***************************************************************************)

pipeline_vars ==
  <<pc, done, original_text, validate_pii_data, regex_vars, ner_vars, topic_vars,
    restore_vars, nlp, is_valid, fault, caught, raised>>

InitEventLoop ==
  /\ pc = "event_loop"
  /\ original_text = "" /\ validate_pii_data = TRUE
  /\ regex_filtered_text = "" /\ ner_filtered_text = "" /\ llm_filtered_text = ""
  /\ existing_placeholders = <<>> /\ topic_placeholders = <<>>
  /\ nlp = "loaded"
  /\ Fresh

\* The loop picks a coroutine that is ready to run.
LoopResumes(r) ==
  /\ on_loop = 0
  /\ at[r] \in {"start", "ner_returned", "external_returned"}
  /\ on_loop' = r
  /\ UNCHANGED <<at, in_thread, pipeline_vars>>

\* detect_pii_with_regex: filter_by_regex is called in the coroutine
LoopRegex(r) ==
  /\ on_loop = r /\ at[r] = "start"
  /\ at' = [at EXCEPT ![r] = "regex_done"]
  /\ UNCHANGED <<on_loop, in_thread, pipeline_vars>>

\* detect_pii_with_ner: await asyncio.to_thread(self.ner_service.filter_by_ner, ...)
LoopNerToThread(r) ==
  /\ on_loop = r /\ at[r] = "regex_done"
  /\ at' = [at EXCEPT ![r] = "ner_thread"]
  /\ in_thread' = in_thread \cup {r}
  /\ on_loop' = 0
  /\ UNCHANGED pipeline_vars

\* The worker thread finishes filter_by_ner.
NerThreadReturns(r) ==
  /\ at[r] = "ner_thread" /\ r \in in_thread
  /\ at' = [at EXCEPT ![r] = "ner_returned"]
  /\ in_thread' = in_thread \ {r}
  /\ UNCHANGED <<on_loop, pipeline_vars>>

\* detect_sensitive_topics: filter_sensitive_topics(text) is called in the
\* coroutine, and requests.post waits for the backend.
LoopTopicsPost(r) ==
  /\ on_loop = r /\ at[r] = "ner_returned"
  /\ at' = [at EXCEPT ![r] = "topics_post"]
  /\ UNCHANGED <<on_loop, in_thread, pipeline_vars>>

\* requests.post returns, or times out.
TopicsPostReturns(r) ==
  /\ on_loop = r /\ at[r] = "topics_post"
  /\ at' = [at EXCEPT ![r] = "topics_done"]
  /\ UNCHANGED <<on_loop, in_thread, pipeline_vars>>

\* call_external_llm: await asyncio.to_thread(self.external_llm.send_prompt, ...)
LoopExternalToThread(r) ==
  /\ on_loop = r /\ at[r] = "topics_done"
  /\ at' = [at EXCEPT ![r] = "external_thread"]
  /\ in_thread' = in_thread \cup {r}
  /\ on_loop' = 0
  /\ UNCHANGED pipeline_vars

\* The worker thread finishes send_prompt.
ExternalThreadReturns(r) ==
  /\ at[r] = "external_thread" /\ r \in in_thread
  /\ at' = [at EXCEPT ![r] = "external_returned"]
  /\ in_thread' = in_thread \ {r}
  /\ UNCHANGED <<on_loop, pipeline_vars>>

\* restore_pii: restore_all is called in the coroutine, and the request ends.
LoopRestore(r) ==
  /\ on_loop = r /\ at[r] = "external_returned"
  /\ at' = [at EXCEPT ![r] = "returned"]
  /\ on_loop' = 0
  /\ UNCHANGED <<in_thread, pipeline_vars>>

NextEventLoop ==
  \E r \in Requests :
    \/ LoopResumes(r)
    \/ LoopRegex(r)
    \/ LoopNerToThread(r)
    \/ NerThreadReturns(r)
    \/ LoopTopicsPost(r)
    \/ TopicsPostReturns(r)
    \/ LoopExternalToThread(r)
    \/ ExternalThreadReturns(r)
    \/ LoopRestore(r)

SpecEventLoop == InitEventLoop /\ [][NextEventLoop]_vars

(***************************************************************************)
(* Properties of the Pattern Detector.                                     *)
(***************************************************************************)
Range(seq) == {seq[i] : i \in 1..Len(seq)}

\* The half-open overlap test.
SpansOverlap(a, b) == a[1] < b[2] /\ b[1] < a[2]

\* The clusters of a list of candidates: the candidates sorted by start
\* offset, a candidate joining the current cluster when its start offset
\* falls before the cluster's maximum end offset.
RECURSIVE ClustersFrom(_, _, _, _, _)
ClustersFrom(sorted, i, current, current_end, clusters) ==
  IF i > Len(sorted) THEN clusters \cup {current}
  ELSE IF MatchStart(sorted[i]) < current_end
       THEN ClustersFrom(sorted, i + 1, current \cup {sorted[i]},
                         Max(current_end, MatchEnd(sorted[i])), clusters)
       ELSE ClustersFrom(sorted, i + 1, {sorted[i]}, MatchEnd(sorted[i]),
                         clusters \cup {current})

Clusters(candidates) ==
  IF candidates = <<>> THEN {}
  ELSE LET sorted == StableSort(candidates, StartsBefore)
       IN ClustersFrom(sorted, 2, {sorted[1]}, MatchEnd(sorted[1]), {})

\* The mappings of one type, as the set of their indices in the list.
OfType(mappings, pii_type) == {i \in 1..Len(mappings) : mappings[i].type = pii_type}

\* For each type with k mappings the placeholders of the type carry the
\* ordinals 1..k, growing from left to right with the mappings' spans.
OrdinalsLeftToRight(mappings) ==
  \A i \in 1..Len(mappings) :
    LET same == OfType(mappings, mappings[i].type)
        ordinal == Cardinality({j \in same : mappings[j].span[1] < mappings[i].span[1]}) + 1
    IN \/ mappings[i].placeholder = Placeholder(mappings[i].type, ordinal)
       \/ /\ \E j \in same \ {i} : mappings[j].span[1] = mappings[i].span[1]
          /\ \E n \in 1..Cardinality(same) :
               mappings[i].placeholder = Placeholder(mappings[i].type, n)

\* The offset, in the masked text, of the placeholder of mappings[i] when
\* every mapping to its left has been replaced by its placeholder.
MaskedOffset(mappings, i) ==
  LET Growth[j \in 0..Len(mappings)] ==
        IF j = 0 THEN 0
        ELSE Growth[j - 1]
             + (IF mappings[j].span[2] <= mappings[i].span[1]
                THEN Len(mappings[j].placeholder) - Len(mappings[j].original_value)
                ELSE 0)
  IN mappings[i].span[1] + Growth[Len(mappings)]

\* C3: for any text T, restore_pii_from_mappings applied to the masked text
\* and the mappings of filter_by_regex(T) gives back T exactly.
C3_RegexRoundTrip ==
  "regex_restore" \in done => final_response_text = original_text

\* C4: after _handle_overlaps no two retained candidates have overlapping
\* half-open spans.
C4_NonOverlapPostPass ==
  "regex" \in done =>
    \A i, j \in 1..Len(unique_matches) :
      i # j => ~SpansOverlap(unique_matches[i].match, unique_matches[j].match)

\* The pass found candidates of several types on overlapping spans.
C4_OverlappingCandidates ==
  /\ "regex" \in done
  /\ \E i, j \in 1..Len(all_matches) :
       /\ all_matches[i].type # all_matches[j].type
       /\ SpansOverlap(all_matches[i].match, all_matches[j].match)

\* C8: of each cluster of overlapping candidates _handle_overlaps keeps
\* exactly one candidate, one whose type has the lowest priority value of the
\* cluster (99 for a type that is not in the table).
C8_PriorityTieBreak ==
  "regex" \in done =>
    \A cluster \in Clusters(all_matches) :
      LET kept == cluster \cap Range(unique_matches)
      IN /\ Cardinality(kept) = 1
         /\ \A m \in kept, c \in cluster :
              _TYPE_PRIORITY(m.type) <= _TYPE_PRIORITY(c.type)

\* C9: for each type with k retained matches the placeholders of
\* filter_by_regex carry the ordinals 1..k from left to right, every retained
\* occurrence is replaced by its placeholder in the masked text, and no two
\* mappings, of one value or not, share a placeholder.
C9_RegexOrdinals ==
  "regex" \in done =>
    /\ Len(regex_mappings) = Len(unique_matches)
    /\ OrdinalsLeftToRight(regex_mappings)
    /\ \A i \in 1..Len(regex_mappings) :
         StartsWithAt(regex_filtered_text, regex_mappings[i].placeholder,
                      MaskedOffset(regex_mappings, i))
    /\ \A i, j \in 1..Len(regex_mappings) :
         i # j => regex_mappings[i].placeholder # regex_mappings[j].placeholder

\* The pass masked one value twice.
C9_RepeatedValue ==
  /\ "regex" \in done
  /\ \E i, j \in 1..Len(regex_mappings) :
       /\ i # j
       /\ regex_mappings[i].original_value = regex_mappings[j].original_value

(***************************************************************************)
(* Properties of one pass of any detector.                                 *)
(***************************************************************************)
DistinctPlaceholders(mappings) ==
  \A i, j \in 1..Len(mappings) :
    i # j => mappings[i].placeholder # mappings[j].placeholder

\* C5: in the mapping list returned by one pass of filter_by_regex,
\* filter_by_ner or filter_sensitive_topics no two mappings have the same
\* placeholder.
C5_PlaceholderUniqueness ==
  /\ DistinctPlaceholders(regex_mappings)
  /\ DistinctPlaceholders(ner_mappings)
  /\ DistinctPlaceholders(llm_mappings)

\* A pass of the topic extractor masked two fragments of one category, the
\* backend having named the same text twice.
C5_SameTypeTwice ==
  /\ "topic" \in done
  /\ \E i, j \in 1..Len(llm_mappings) :
       /\ i # j
       /\ llm_mappings[i].type = llm_mappings[j].type
       /\ llm_mappings[i].span = llm_mappings[j].span

ValuesAtSpans(text, mappings) ==
  \A i \in 1..Len(mappings) :
    /\ 0 <= mappings[i].span[1]
    /\ mappings[i].span[1] <= mappings[i].span[2]
    /\ mappings[i].span[2] <= Len(text)
    /\ mappings[i].original_value = Slice(text, mappings[i].span[1], mappings[i].span[2])

\* C6: the original_value of every mapping of a pass is the substring at the
\* mapping's span of the text the pass was given.
C6_ValueAtSpan ==
  /\ "regex" \in done => ValuesAtSpans(original_text, regex_mappings)
  /\ "ner" \in done => ValuesAtSpans(regex_filtered_text, ner_mappings)
  /\ "topic" \in done => ValuesAtSpans(ner_filtered_text, llm_mappings)

\* A pass of the entity detector returned two mappings, and in the text it
\* returned the span of the right one no longer holds its value.
C6_SpanOfInputText ==
  /\ "ner" \in done
  /\ Len(ner_mappings) = 2
  /\ Slice(ner_filtered_text, ner_mappings[2].span[1], ner_mappings[2].span[2])
       # ner_mappings[2].original_value

CountOccurrences(text, placeholder) == Cardinality(OccurrencesFrom(text, placeholder, 0))

\* No mapping's span intersects an occurrence of a placeholder of the list in
\* the text given, and the text returned has every occurrence still.
Avoided(text, returned, mappings, placeholders) ==
  /\ \A i \in 1..Len(mappings), o \in PlaceholderSpans(text, placeholders) :
       ~SpansOverlap(mappings[i].span, o)
  /\ \A k \in 1..Len(placeholders) :
       CountOccurrences(returned, placeholders[k]) >= CountOccurrences(text, placeholders[k])

\* C7: given a non-empty list of existing placeholders, filter_by_ner and
\* filter_sensitive_topics return no mapping whose span intersects an
\* occurrence of one of them, and leave every such occurrence intact in the
\* text they return.
C7_PlaceholderAvoidance ==
  /\ ("ner" \in done /\ existing_placeholders # <<>>) =>
       Avoided(regex_filtered_text, ner_filtered_text, ner_mappings, existing_placeholders)
  /\ ("topic" \in done /\ topic_placeholders # <<>>) =>
       Avoided(ner_filtered_text, llm_filtered_text, llm_mappings, topic_placeholders)

\* The backend named a fragment that intersects an occurrence of a
\* placeholder the caller gave.
C7_FragmentOnPlaceholder ==
  /\ "topic" \in done
  /\ topic_placeholders # <<>>
  /\ \E i \in 1..Len(response.fragments) :
       LET start_pos == Find(ner_filtered_text, response.fragments[i].exact_text, 0)
       IN /\ start_pos # -1
          /\ \E o \in PlaceholderSpans(ner_filtered_text, topic_placeholders) :
               SpansOverlap(<<start_pos, start_pos + Len(response.fragments[i].exact_text)>>, o)

\* C10: filter_by_ner and filter_sensitive_topics count ordinals per type:
\* for each type with k masked items the placeholders of the type carry the
\* ordinals 1..k from left to right.
C10_PerTypeOrdinals ==
  /\ "ner" \in done => OrdinalsLeftToRight(ner_mappings)
  /\ "topic" \in done => OrdinalsLeftToRight(llm_mappings)

\* A pass of the entity detector masked entities of two types.
C10_TwoTypes ==
  /\ "ner" \in done
  /\ \E i, j \in 1..Len(ner_mappings) : ner_mappings[i].type # ner_mappings[j].type

(***************************************************************************)
(* Properties of the pipeline.                                             *)
(***************************************************************************)

\* No stage dropped a match: every candidate of the pattern detector, every
\* entity of the classifier and every fragment of the backend was masked.
NoStageDrops ==
  /\ Len(regex_mappings) = Len(all_matches)
  /\ ~doc.raises /\ Len(ner_mappings) = Len(doc.ents)
  /\ response.kind = "fragments" /\ Len(llm_mappings) = Len(response.fragments)

\* C1: for any input text T, masking T with the pattern detector, the entity
\* detector and the topic extractor and then restore_all on the masked text
\* and the three mapping lists returns exactly T, whenever no stage drops a
\* match.
C1_PipelineRoundTrip ==
  (pc = "done" /\ NoStageDrops) => final_response_text = original_text

\* A request in which each of the three stages masked something and none
\* dropped a match.
C1_AllStagesMasked ==
  /\ pc = "done" /\ NoStageDrops
  /\ regex_mappings # <<>> /\ ner_mappings # <<>> /\ llm_mappings # <<>>

LayerRank(layer) == CASE layer = "llm" -> 1 [] layer = "ner" -> 2 [] layer = "regex" -> 3

LayerLength(order, layer) == Cardinality({i \in 1..Len(order) : order[i].layer = layer})

\* C2: restore_all goes through the three lists in the reverse order of
\* masking: every mapping of the topic extractor, then every mapping of the
\* entity detector, then every mapping of the pattern detector; no mapping of
\* a detector applied earlier is substituted before all mappings of a
\* detector applied later have been processed.
C2_ReverseOrder ==
  ("restore" \in done /\ llm_external_response # "") =>
    /\ \A i, j \in 1..Len(restore_order) :
         i < j => LayerRank(restore_order[i].layer) <= LayerRank(restore_order[j].layer)
    /\ LayerLength(restore_order, "llm") = Len(llm_mappings)
    /\ LayerLength(restore_order, "ner") = Len(ner_mappings)
    /\ LayerLength(restore_order, "regex") = Len(regex_mappings)

\* restore_all substituted a mapping of each of the three lists.
C2_ThreeLayersRestored ==
  /\ "restore" \in done
  /\ \A layer \in {"llm", "ner", "regex"} :
       \E i \in 1..Len(restore_order) :
         restore_order[i].layer = layer /\ restore_order[i].substituted

\* C11: the placeholder of every mapping returned by filter_by_regex occurs
\* in the masked text returned with it.
C11_PlaceholderInMaskedText ==
  "regex" \in done =>
    \A i \in 1..Len(regex_mappings) :
      Contains(regex_filtered_text, regex_mappings[i].placeholder)

\* A pass of the pattern detector returned several mappings.
C11_SeveralMappings ==
  /\ "regex" \in done
  /\ Len(regex_mappings) >= 2

(***************************************************************************)
(* Properties of the Entity Detector.                                      *)
(***************************************************************************)

\* The entities filter_by_ner hands to _filter_overlapping_entities in the
\* pass of the entity detector: those extracted, away from the placeholders
\* when a list was given, and confident enough.
NerCandidates ==
  LET extracted == IF existing_placeholders # <<>>
                   THEN _extract_entities_avoiding_placeholders(
                          regex_filtered_text, existing_placeholders, doc)
                   ELSE _extract_entities(regex_filtered_text, doc)
  IN SelectSeq(extracted, LAMBDA e : e.confidence >= confidence_threshold)

SpanLength(span) == span[2] - span[1]

\* C12: the entities retained by _filter_overlapping_entities are pairwise
\* non-overlapping, and of the entities that start at one offset only the
\* longest is retained.
C12_EntityOverlapResolution ==
  ("ner" \in done /\ Strip(regex_filtered_text) # "") =>
    /\ \A i, j \in 1..Len(ner_mappings) :
         i # j => ~SpansOverlap(ner_mappings[i].span, ner_mappings[j].span)
    /\ \A a, b \in Range(NerCandidates) :
         (a.span[1] = b.span[1] /\ SpanLength(a.span) < SpanLength(b.span)) =>
           \A i \in 1..Len(ner_mappings) : ner_mappings[i].span # a.span
    /\ \A i \in 1..Len(ner_mappings) :
         \E a \in Range(NerCandidates) : a.span = ner_mappings[i].span

\* Two entities of different lengths started at one offset, and the longer
\* one was masked.
C12_SameStartLongestKept ==
  /\ "ner" \in done
  /\ \E a, b \in Range(NerCandidates) :
       /\ a.span[1] = b.span[1]
       /\ SpanLength(a.span) < SpanLength(b.span)
       /\ \E i \in 1..Len(ner_mappings) : ner_mappings[i].span = b.span


RestoreFaultKinds == {"original_value", "span", "mapping"}

\* An exception was raised while restore_all went through the mappings.
RaisedInRestore ==
  /\ pc \in {"done", "restore_failed"}
  /\ fault.kind \in RestoreFaultKinds
  /\ (caught # <<>> \/ raised # "")

\* C13: when an exception is raised while restore_all substitutes mappings,
\* restore_all lets no exception out and returns the masked text it was
\* given, with no placeholder restored.
C13_RestorationRollback ==
  RaisedInRestore => (raised = "" /\ final_response_text = llm_external_response)

\* restore_all did roll back: a mapping was substituted before the exception
\* and the text returned is the text given.
C13_RolledBack ==
  /\ RaisedInRestore
  /\ raised = ""
  /\ \E i \in 1..Len(restore_order) : restore_order[i].substituted
  /\ final_response_text = llm_external_response


\* The mappings of the three lists.
AllMappings == Range(llm_mappings) \cup Range(ner_mappings) \cup Range(regex_mappings)

\* text from offset i on, every occurrence of a placeholder of mappings
\* replaced by its original_value, in one pass from left to right.
RECURSIVE SubstitutedFrom(_, _, _)
SubstitutedFrom(text, i, mappings) ==
  IF i >= Len(text) THEN ""
  ELSE LET here == {m \in mappings : StartsWithAt(text, m.placeholder, i)}
       IN IF here = {} THEN CharAt(text, i) \o SubstitutedFrom(text, i + 1, mappings)
          ELSE LET m == CHOOSE x \in here : TRUE
               IN m.original_value
                  \o SubstitutedFrom(text, i + Len(m.placeholder), mappings)

\* C14: a mapping whose placeholder is not in the text being restored is
\* skipped without an exception, and every occurrence of every other
\* mapping's placeholder is replaced by its original_value: restore_all goes
\* through every mapping of every list, and the text it returns is the text
\* it was given with each occurrence of each placeholder replaced.
C14_MissingPlaceholderSkipped ==
  ("restore" \in done /\ fault = NoFault) =>
    /\ raised = ""
    /\ llm_external_response # ""
         => Len(restore_order)
              = Len(llm_mappings) + Len(ner_mappings) + Len(regex_mappings)
    /\ \A m \in AllMappings : ~Contains(final_response_text, m.placeholder)
    /\ final_response_text = SubstitutedFrom(llm_external_response, 0, AllMappings)

\* A mapping was skipped and a mapping gone through after it was substituted,
\* for more than one occurrence.
C14_SkippedThenSubstituted ==
  /\ "restore" \in done /\ fault = NoFault
  /\ \E i, j \in 1..Len(restore_order) :
       /\ i < j
       /\ ~restore_order[i].substituted
       /\ restore_order[j].substituted
       /\ CountOccurrences(llm_external_response, restore_order[j].placeholder) >= 2


StageFailed == pc \in {"regex_failed", "ner_failed", "topic_failed", "restore_failed"}

\* C15: whatever the text and whatever the classifier, the topic backend and
\* the external model answer, every stage of ProxyService returns a result:
\* no stage ends with an exception that reaches its caller.
C15_NoExceptionReachesCaller == ~StageFailed /\ raised = ""

\* A request all five stages of which returned, with something masked.
C15_RequestReturned ==
  pc = "returned" /\ regex_mappings # <<>> /\ llm_mappings # <<>>


\* C16: whatever the backend answers, filter_sensitive_topics lets no
\* exception out, and when the answer held nothing usable it returns the
\* text it was given and no mapping.
C16_TopicDegradation ==
  /\ pc # "topic_failed"
  /\ ("topic" \in done /\ response.kind # "fragments")
       => (llm_filtered_text = ner_filtered_text /\ llm_mappings = <<>>)

\* The backend failed, or answered with no list, and the text came back as it
\* was given.
C16_DegradedToInput ==
  /\ "topic" \in done
  /\ response.kind \in {"error", "not_list"}
  /\ ner_filtered_text # ""
  /\ llm_filtered_text = ner_filtered_text /\ llm_mappings = <<>>


\* The candidate for which the fault of the pass raised.
IsFaultyCandidate(m) ==
  LET spans == FindIter(PII_PATTERNS(fault.layer), original_text, 0)
  IN m.type = fault.layer /\ fault.at <= Len(spans) /\ spans[fault.at] = m.match

\* validate_pii or normalize_pii_value raised for a candidate of the pass.
RaisedForCandidate ==
  /\ fault.kind \in {"validate", "normalize"}
  /\ (caught # <<>> \/ raised # "")

\* The candidates of the pass without the one that raised.
OtherCandidates ==
  SelectSeq(_find_all_matches(original_text, validate_pii_data),
            LAMBDA m : ~IsFaultyCandidate(m))

\* C17: when validating or normalising one candidate raises, the pass goes
\* on without that candidate only: every other candidate, of the same type
\* and of the other types, is collected, and the pass masks them as it would
\* have without the candidate.
C17_PerCandidateRecovery ==
  RaisedForCandidate =>
    /\ raised = "" /\ "regex" \in done
    /\ all_matches = OtherCandidates
    /\ <<regex_filtered_text, regex_mappings>>
         = IF OtherCandidates = <<>> THEN <<original_text, <<>>>>
           ELSE _replace_pii_with_placeholders(original_text,
                                               _handle_overlaps(OtherCandidates))

\* The candidates of the other types were collected and masked after the
\* exception.
C17_OtherTypesCollected ==
  /\ RaisedForCandidate /\ raised = ""
  /\ \E i \in 1..Len(all_matches) : all_matches[i].type # fault.layer
  /\ regex_mappings # <<>>


\* C18: when the classifier model cannot be loaded the constructor of
\* NERService raises, and there is no instance to serve filter_by_ner.
C18_FailFastConstruction ==
  fault.kind = "model_not_loaded" =>
    (raised = fault.exception /\ nlp = "unset" /\ "ner" \notin done)

\* The instance built without the model served a pass, on a text where the
\* trained classifier names an entity, and masked nothing.
C18_DegradedPass ==
  /\ fault.kind = "model_not_loaded"
  /\ nlp = "blank"
  /\ "ner" \in done
  /\ \E outcome \in ClassifierOutcomes(regex_filtered_text) :
       filter_by_ner(regex_filtered_text, existing_placeholders, outcome)[2] # <<>>
  /\ ner_mappings = <<>> /\ ner_filtered_text = regex_filtered_text


\* C19: in a request, filter_by_ner is handed the placeholders of all
\* mappings of the pattern detector as the placeholders to avoid, and
\* filter_sensitive_topics those of all mappings of the pattern detector and
\* of the entity detector.
C19_PlaceholderContextThreaded ==
  /\ "ner" \in done
       => Range(existing_placeholders) = Range(PlaceholdersOf(regex_mappings))
  /\ ("topic" \in done \/ pc = "topic_failed")
       => Range(topic_placeholders)
            = Range(PlaceholdersOf(regex_mappings)) \cup Range(PlaceholdersOf(ner_mappings))

\* The entity detector was handed the placeholders of the pattern detector.
C19_NerHandedRegexPlaceholders ==
  /\ "ner" \in done
  /\ regex_mappings # <<>>
  /\ existing_placeholders = PlaceholdersOf(regex_mappings)


StageSequence == <<"regex", "ner", "topic", "external", "restore">>

StagesDone(n) == {StageSequence[i] : i \in 1..n}

\* A step of a request: the stages finished are a prefix of the sequence,
\* the step finishes at most the next one, and what each finished stage left
\* is its result on what the stage before it left.
SequentialStep ==
  /\ \E n \in 0..Len(StageSequence) :
       /\ done = StagesDone(n)
       /\ done' = done \/ (n < Len(StageSequence) /\ done' = StagesDone(n + 1))
  /\ "regex" \in done'
       => <<regex_filtered_text', regex_mappings'>>
            = filter_by_regex(original_text', validate_pii_data')
  /\ "ner" \in done'
       => <<ner_filtered_text', ner_mappings'>>
            = filter_by_ner(regex_filtered_text', existing_placeholders', doc')
  /\ "topic" \in done'
       => <<llm_filtered_text', llm_mappings'>>
            = filter_sensitive_topics(ner_filtered_text', topic_placeholders', response')
  /\ "external" \in done' => llm_external_response' = llm_filtered_text'
  /\ "restore" \in done'
       => final_response_text'
            = restore_all(llm_external_response',
                          create_restoration_data(regex_mappings', ner_mappings',
                                                  llm_mappings'))

\* C20: the stages of a request run in the order pattern detector, entity
\* detector, topic extractor, external model, restoration, one after the
\* other; each detector works on the text the detector before it returned,
\* and the external model is sent the text the topic extractor returned.
C20_StagesInOrder == [][SequentialStep]_vars

\* All five stages ran and each detector changed the text it was given.
C20_EveryStageActed ==
  /\ done = StagesDone(5) /\ pc = "done"
  /\ regex_filtered_text # original_text
  /\ ner_filtered_text # regex_filtered_text
  /\ llm_filtered_text # ner_filtered_text
  /\ final_response_text # llm_external_response


\* The whole of placeholder is one match of placeholder_pattern, with a
\* number that is not 0.
HasWireFormat(placeholder) ==
  /\ MatchAt(placeholder_pattern, placeholder, 0) = Len(placeholder)
  /\ \E i \in 0..(Len(placeholder) - 1) :
       /\ CharAt(placeholder, i) = "_"
       /\ \A j \in (i + 1)..(Len(placeholder) - 2) : CharAt(placeholder, j) \in Digits
       /\ i + 1 <= Len(placeholder) - 2
       /\ \E j \in (i + 1)..(Len(placeholder) - 2) : CharAt(placeholder, j) # "0"

\* C21: every placeholder of every mapping the three detectors return is
\* [TYPE_N], TYPE of uppercase letters and underscores and N a positive
\* integer, so that the integrity check finds it where it is left in a text.
C21_PlaceholderWireFormat ==
  \A m \in AllMappings :
    /\ HasWireFormat(m.placeholder)
    /\ ~_check_restoration_integrity("x " \o m.placeholder \o " y")

\* A pass returned placeholders of two types, all of the format.
C21_FormattedPlaceholders ==
  /\ \E a, b \in AllMappings : a.type # b.type
  /\ \A m \in AllMappings : HasWireFormat(m.placeholder)


\* C22: validate_pii("CPF", v) is true exactly for a v with eleven digits,
\* not all the same, whose two last digits are the check digits of the
\* weighted sums modulo 11.
C22_CpfChecksum ==
  "validate" \in done => (is_valid <=> validate_cpf(original_text))

\* A value with the right check digits was accepted.
C22_ValidCpfAccepted ==
  /\ "validate" \in done
  /\ original_text = "123.456.789-09"
  /\ is_valid /\ validate_cpf(original_text)


\* The fragments of the backend's answer that the topic extractor can mask.
ExtractableFragments ==
  IF response.kind # "fragments" THEN <<>>
  ELSE FoundFragments(ner_filtered_text, response.fragments,
                      _find_placeholder_spans(ner_filtered_text, topic_placeholders))

\* C23: a detector that finds nothing in a text (no pattern match, no
\* recognised entity, no extractable fragment) returns the text as it was
\* given and an empty list of mappings.
C23_NothingFoundNothingChanged ==
  /\ ("regex" \in done /\ fault = NoFault /\ all_matches = <<>>)
       => (regex_filtered_text = original_text /\ regex_mappings = <<>>)
  /\ ("ner" \in done /\ (Strip(regex_filtered_text) = "" \/ NerCandidates = <<>>))
       => (ner_filtered_text = regex_filtered_text /\ ner_mappings = <<>>)
  /\ ("topic" \in done /\ ExtractableFragments = <<>>)
       => (llm_filtered_text = ner_filtered_text /\ llm_mappings = <<>>)

\* The backend named a fragment that is not in the text, and the text came
\* back as it was.
C23_FragmentNotInText ==
  /\ "topic" \in done
  /\ response.kind = "fragments" /\ response.fragments # <<>>
  /\ ExtractableFragments = <<>>
  /\ Strip(ner_filtered_text) # ""
  /\ llm_filtered_text = ner_filtered_text /\ llm_mappings = <<>>


\* The entities the avoidance step of the pass removed.
DroppedByAvoidance ==
  LET all_entities == _extract_entities(regex_filtered_text, doc)
      kept == _extract_entities_avoiding_placeholders(
                regex_filtered_text, existing_placeholders, doc)
  IN {all_entities[i] : i \in 1..Len(all_entities)} \ {kept[i] : i \in 1..Len(kept)}

\* C24: the avoidance step of the entity detector drops an entity only when
\* its span overlaps an occurrence of a placeholder of the list under the
\* half-open test (start_a < end_b and end_a > start_b), however close to a
\* placeholder the entity lies.
C24_AvoidanceIsExactOverlap ==
  ("ner" \in done /\ existing_placeholders # <<>>) =>
    \A entity \in DroppedByAvoidance :
      \E ph \in PlaceholderSpans(regex_filtered_text, existing_placeholders) :
        SpansOverlap(entity.span, ph)

\* An entity away from every placeholder occurrence was dropped and the pass
\* returned the text with the entity in it.
C24_NearbyEntityDropped ==
  /\ "ner" \in done /\ existing_placeholders # <<>>
  /\ \E entity \in DroppedByAvoidance :
       /\ \A ph \in PlaceholderSpans(regex_filtered_text, existing_placeholders) :
            ~SpansOverlap(entity.span, ph)
       /\ Contains(ner_filtered_text, entity.value)


\* The entity is among those the pass retained and masked.
RetainedEntity(entity) ==
  \E i \in 1..Len(ner_mappings) : ner_mappings[i].span = entity.span

\* C25: of two candidate entities whose spans overlap and whose lengths
\* differ, _filter_overlapping_entities never retains the shorter one while
\* it discards the longer one.
C25_LongestSpanWins ==
  ("ner" \in done /\ Strip(regex_filtered_text) # "") =>
    \A a, b \in Range(NerCandidates) :
      (SpansOverlap(a.span, b.span) /\ SpanLength(a.span) < SpanLength(b.span))
        => ~(RetainedEntity(a) /\ ~RetainedEntity(b))

\* A shorter entity that starts first was retained and the longer entity
\* that overlaps it was discarded.
C25_ShorterRetained ==
  /\ "ner" \in done /\ Strip(regex_filtered_text) # ""
  /\ \E a, b \in Range(NerCandidates) :
       /\ SpansOverlap(a.span, b.span)
       /\ SpanLength(a.span) < SpanLength(b.span)
       /\ a.span[1] < b.span[1]
       /\ RetainedEntity(a) /\ ~RetainedEntity(b)


(***************************************************************************)
(* Properties of the event loop.                                           *)
(***************************************************************************)

\* The blocking calls of a request: entity classification, the topic
\* extractor's network call, the external call.
InBlockingCall(r) == at[r] \in {"ner_thread", "topics_post", "external_thread"}

\* C26: the blocking calls of a request run in a worker thread: while a
\* request waits in one of them the event loop is not held by that request,
\* so the loop can run another request.
C26_BlockingCallsOffLoop ==
  \A r \in Requests : InBlockingCall(r) => (r \in in_thread /\ on_loop # r)

\* A request waits in the topic extractor's network call on the loop while
\* another request is ready to run.
C26_LoopHeldByTopicsCall ==
  \E r, q \in Requests :
    /\ r # q
    /\ at[r] = "topics_post" /\ on_loop = r
    /\ at[q] \in {"start", "ner_returned", "external_returned"}


(***************************************************************************)
(* Properties of the overlap groups of the Pattern Detector.               *)
(***************************************************************************)

\* The groups _handle_overlaps forms, from index i (1-based) on: each is the
\* list overlapping_matches of one round of the outer loop.
RECURSIVE GroupsFrom(_, _)
GroupsFrom(sorted, i) ==
  IF i > Len(sorted) THEN <<>>
  ELSE LET j == GroupEnd(sorted, i + 1, MatchEnd(sorted[i]))
       IN <<SubSeq(sorted, i, j - 1)>> \o GroupsFrom(sorted, j)

OverlapGroups(candidates) ==
  IF candidates = <<>> THEN <<>>
  ELSE GroupsFrom(StableSort(candidates, StartsBefore), 1)

MatchesOverlap(a, b) == MatchStart(a) < MatchEnd(b) /\ MatchStart(b) < MatchEnd(a)

\* C27: every candidate _handle_overlaps discards overlaps the candidate
\* that is retained for its group, so part of its characters is under a
\* placeholder.
C27_DiscardedOverlapsRetained ==
  ("regex" \in done /\ fault = NoFault) =>
    \A g \in Range(OverlapGroups(all_matches)) :
      \A k \in 1..Len(g) :
        g[k] # BestMatch(g) => MatchesOverlap(g[k], BestMatch(g))

\* A candidate was discarded for a retained candidate it does not overlap,
\* and its value is in the masked text.
C27_DiscardedLeftUnmasked ==
  /\ "regex" \in done /\ fault = NoFault
  /\ \E g \in Range(OverlapGroups(all_matches)) :
       \E k \in 1..Len(g) :
         /\ g[k] # BestMatch(g)
         /\ ~MatchesOverlap(g[k], BestMatch(g))
         /\ \A u \in Range(unique_matches) : ~MatchesOverlap(g[k], u)
         /\ Contains(regex_filtered_text, g[k].value)


(***************************************************************************)
(* Properties of the mappings of the Topic Extractor.                      *)
(***************************************************************************)

\* The text with the span of each mapping of the list replaced by the
\* mapping's placeholder, the list being in descending order of start.
RECURSIVE SpliceFrom(_, _, _)
SpliceFrom(text, mappings, k) ==
  IF k > Len(mappings) THEN text
  ELSE SpliceFrom(Slice(text, 0, mappings[k].span[1]) \o mappings[k].placeholder
                    \o SliceFrom(text, mappings[k].span[2]),
                  mappings, k + 1)

SpansReplaced(text, mappings) == SpliceFrom(text, StableSort(mappings, MappingAfter), 1)

\* C28: the spans of the mappings of one pass of the topic extractor are
\* pairwise non-overlapping, also for duplicate or overlapping fragments, and
\* the masked text is the input text with each mapping's span replaced by
\* the mapping's placeholder.
C28_TopicSpansDisjoint ==
  "topic" \in done =>
    /\ \A i, j \in 1..Len(llm_mappings) :
         i # j => ~SpansOverlap(llm_mappings[i].span, llm_mappings[j].span)
    /\ llm_filtered_text = SpansReplaced(ner_filtered_text, llm_mappings)

\* The backend named one fragment twice and the pass returned two mappings
\* with one span.
C28_DuplicateFragmentMapped ==
  /\ "topic" \in done /\ response.kind = "fragments"
  /\ \E i, j \in 1..Len(response.fragments) :
       i # j /\ response.fragments[i].exact_text = response.fragments[j].exact_text
  /\ \E i, j \in 1..Len(llm_mappings) :
       i # j /\ llm_mappings[i].span = llm_mappings[j].span


(***************************************************************************)
(* Properties of the placeholders of the three passes together.            *)
(***************************************************************************)

IssuedBy(mappings) == {mappings[i].placeholder : i \in 1..Len(mappings)}

\* C29: across the passes of one request no placeholder of one pass equals a
\* placeholder of another pass, so the substitution of restore_all never
\* puts the original value of one pass in the place of another pass's
\* placeholder.
C29_PlaceholdersDistinctAcrossPasses ==
  /\ {"regex", "ner"} \subseteq done
       => IssuedBy(regex_mappings) \cap IssuedBy(ner_mappings) = {}
  /\ {"regex", "topic"} \subseteq done
       => IssuedBy(regex_mappings) \cap IssuedBy(llm_mappings) = {}
  /\ {"ner", "topic"} \subseteq done
       => IssuedBy(ner_mappings) \cap IssuedBy(llm_mappings) = {}

\* The entity detector and the topic extractor issued the same placeholder,
\* the external model answered with the masked text, and restore_all put
\* the fragment of the topic extractor where the entity was.
C29_EntityPlaceholderReissued ==
  /\ {"ner", "topic", "restore"} \subseteq done
  /\ IssuedBy(ner_mappings) \cap IssuedBy(llm_mappings) # {}
  /\ llm_external_response = llm_filtered_text
  /\ final_response_text # original_text
  /\ \E i \in 1..Len(ner_mappings) :
       /\ ~Contains(final_response_text, ner_mappings[i].original_value)
       /\ ~Contains(final_response_text, ner_mappings[i].placeholder)


(***************************************************************************)
(* Properties of the categories of the Topic Extractor.                    *)
(***************************************************************************)

\* C30: every mapping the topic extractor returns has a type of the closed
\* list SENSITIVE_CATEGORIES; a fragment of another category is not masked.
C30_CategoriesFromClosedList ==
  "topic" \in done =>
    \A i \in 1..Len(llm_mappings) : llm_mappings[i].type \in SENSITIVE_CATEGORIES

\* A fragment of a category outside the list was masked: its mapping was
\* returned and its placeholder is in the masked text.
C30_OffListCategoryMasked ==
  /\ "topic" \in done /\ response.kind = "fragments"
  /\ \E i \in 1..Len(llm_mappings) :
       /\ llm_mappings[i].type \notin SENSITIVE_CATEGORIES
       /\ \E k \in 1..Len(response.fragments) :
            /\ response.fragments[k].category = llm_mappings[i].type
            /\ response.fragments[k].exact_text = llm_mappings[i].original_value
       /\ Contains(llm_filtered_text, llm_mappings[i].placeholder)

====
